---- MODULE Spec2Model ----
(***************************************************************************)
(* Model of the HTTP request engines (AmplifierClient._request,           *)
(* PrintfulClient._request), of the client operations built on them, of   *)
(* the offset/page-number fetch-all loops and of the cursor-link          *)
(* fetch-all loops of the Shopify scripts.                                 *)
(*                                                                         *)
(* One client operation runs at a time (the scripts are single-threaded). *)
(* The remote system is the environment: it answers every HTTP request    *)
(* with a status, headers and a body of its choice.                        *)
(***************************************************************************)
EXTENDS Integers, Sequences, FiniteSets, TLC

(***************************************************************************)
(* Bounds of the model.                                                    *)
(***************************************************************************)
MaxRetryCount == 3      \* retry_count arguments explored: 1..MaxRetryCount
MaxHeaderLen == 2       \* longest Retry-After header value, in characters
MaxPages == 3           \* most pages held by a page-structured server
MaxPageLen == 2         \* most records on one server page
MaxFullPages == 2       \* Printful data sets hold up to about this many full pages
MaxTitleWords == 2      \* most words of a product title given to the classifiers
MaxOrders == 2          \* most orders given to a normalizer
MaxShows == 11          \* most rows, each of a show of its own, given to a report
MaxRefundOrders == 3    \* most orders of a refund batch

(***************************************************************************)
(* Program constants.                                                      *)
(***************************************************************************)
DefaultRetryCount == 3      \* retry_count: int = 3
DefaultRetryAfter == 60     \* response.headers.get('Retry-After', 60)
PrintfulLimit == 100        \* limit = 100 in get_all_products / get_all_orders
LastFilm == 8               \* `1 <= film_num <= 8` of extract_show_name
SuffixSlack == 5            \* `idx > len(clean_title) - len(suffix) - 5`
TopShows == 10              \* `[:10]` of TOP 10 SHOWS/FRANCHISES in print_report
TopCountries == 10          \* `[:10]` of TOP 10 COUNTRIES in print_report
TopProducts == 15           \* `[:15]` of TOP 15 PRODUCTS BY REVENUE in print_report
LastQuarters == 8           \* `[:8]` of SALES BY QUARTER (Last 8) in print_report
TitleWidth == 50            \* `prod[:50]` in print_report
DefaultDelay == 12          \* `--delay` default=12 of shopify_batch_refund.py

VARIABLES
    op,           \* the client operation in progress, "idle" when none
    pc,           \* position of the operation in its code
    method,       \* HTTP method of the current _request call
    retry_count,  \* retry_count argument of the current _request call
    attempt,      \* loop variable of `for attempt in range(retry_count)`
    resps,        \* status codes received by the current _request call, in order
    lastResp,     \* the response handled last by the current _request call or cursor loop
    sleeps,       \* time.sleep calls made by the current _request call, in order
    httpCount,    \* HTTP requests sent since the operation started
    outcome,      \* how the operation ended: "none", "returned", "ApiError", "ValueError"
    remote,       \* the records held by the remote system, in server order
    pageLens,     \* sizes of the pages a page-structured server serves
    page,         \* page counter of the Amplifier and cursor-link fetch-all loops
    offset,       \* offset of the Printful fetch-all loops
    response,     \* parsed body of the last successful page request
    acc,          \* all_items / all_products / all_orders accumulated so far
    retval,       \* value returned by the operation
    delays,       \* inter-page time.sleep(0.5) calls made by the fetch-all loop
    url,          \* url of the cursor-link loop
    params,       \* params of the cursor-link loop
    lastReq,      \* the last request sent by the cursor-link loop
    lastLink,     \* Link header of the last response received by the cursor-link loop
    failedPage,   \* number of the page request that failed, 0 when none did
    console,      \* the lines the script run printed, in order
    built,        \* whether the run built its report or export files
    ended,        \* whether the run of the script is over
    title,        \* title of the line item given to the classifier
    sku,          \* SKU of the line item given to the classifier
    category,     \* result of FullSalesAnalyzer.categorize_product
    show_name,    \* result of FullSalesAnalyzer.extract_show_name
    book_show_name, \* result of ProgramBookAnalyzer.extract_show_name
    analyzer,     \* the analyzer whose normalizer ran, "none" before
    order_list,   \* the orders given to the normalizer
    sales,        \* the rows the normalizer returned
    error,        \* the exception the normalizer raised, "none" when it returned
    summary,      \* the result of generate_summary
    stage,        \* position in the analysis: "idle", "orders", "sales", "summary",
                  \* "printed", "exported"
    printed,      \* the lines print_report wrote, in order
    category_csv, \* the rows export_by_category_csv wrote, in order
    refund_orders, \* the order names read from the CSV of the refund batch
    dry_run,      \* args.dry_run of the refund batch
    args_amount,  \* args.amount of the refund batch, None when not given
    delay,        \* args.delay of the refund batch, in seconds
    order_index,  \* loop variable i of `for i, order_name in enumerate(orders, 1)`
    refund_pc,    \* position of the refund batch: "idle", "process", "rate limit",
                  \* "done", "crashed"
    events,       \* the HTTP requests and time.sleep calls of the batch, in order
    lookups,      \* per processed order, what its lookups returned
    successful,   \* counter of process_refund calls that returned True
    failed        \* counter of process_refund calls that returned False

vars == <<op, pc, method, retry_count, attempt, resps, lastResp, sleeps, httpCount,
          outcome, remote, pageLens, page, offset, response, acc, retval, delays,
          url, params, lastReq, lastLink, failedPage, console, built, ended,
          title, sku, category, show_name, book_show_name,
          analyzer, order_list, sales, error, summary, stage,
          printed, category_csv,
          refund_orders, dry_run, args_amount, delay, order_index, refund_pc, events,
          lookups, successful, failed>>

requestVars == <<method, retry_count, attempt, resps, lastResp, sleeps>>
loopVars == <<page, offset, response, acc, delays>>
serverVars == <<remote, pageLens>>
cursorVars == <<url, params, lastReq, lastLink>>
scriptVars == <<console, built, ended>>
clientVars == <<op, pc, requestVars, httpCount, outcome, serverVars, loopVars, retval,
                cursorVars, failedPage, scriptVars>>
classifyVars == <<title, sku, category, show_name, book_show_name>>
salesVars == <<analyzer, order_list, sales, error, summary, stage>>
reportVars == <<printed, category_csv>>
refundVars == <<refund_orders, dry_run, args_amount, delay, order_index, refund_pc, events,
                lookups, successful, failed>>
analysisVars == <<classifyVars, salesVars, reportVars, refundVars>>

(***************************************************************************)
(* Python helpers.                                                         *)
(***************************************************************************)
RECURSIVE Pow2(_)
Pow2(n) == IF n = 0 THEN 1 ELSE 2 * Pow2(n - 1)

Digits == <<"0", "1", "2", "3", "4", "5", "6", "7", "8", "9">>

IsDigit(c) == \E i \in 1..Len(Digits) : Digits[i] = c

DigitValue(c) == (CHOOSE i \in 1..Len(Digits) : Digits[i] = c) - 1

RECURSIVE DecimalValue(_)
DecimalValue(s) ==
    IF s = <<>> THEN 0
    ELSE 10 * DecimalValue(SubSeq(s, 1, Len(s) - 1)) + DigitValue(s[Len(s)])

\* int(s) for a header string s, given as its characters: the decimal value
\* of a non-empty all-digit string, ValueError for anything else.
PyInt(s) ==
    IF Len(s) > 0 /\ \A i \in 1..Len(s) : IsDigit(s[i])
    THEN [ok |-> TRUE, val |-> DecimalValue(s)]
    ELSE [ok |-> FALSE, val |-> 0]

\* int(response.headers.get('Retry-After', 60))
RetryAfter(headers) ==
    IF "Retry-After" \in DOMAIN headers
    THEN PyInt(headers["Retry-After"])
    ELSE [ok |-> TRUE, val |-> DefaultRetryAfter]

\* response.raise_for_status() raises HTTPError for a 4xx/5xx status
RaisesForStatus(status) == status >= 400 /\ status < 600

(***************************************************************************)
(* The environment's answers.  Status 0 stands for a request that got no  *)
(* response at all (connection refused, timeout, DNS failure).             *)
(***************************************************************************)
HeaderChars == {"7", "x"}

HeaderStrings == UNION {[1..n -> HeaderChars] : n \in 1..MaxHeaderLen}

NoHeaders == [k \in {} |-> <<>>]

RateLimitHeaders == {NoHeaders} \cup {[k \in {"Retry-After"} |-> s] : s \in HeaderStrings}

Responses ==
    {[status |-> s, headers |-> NoHeaders] : s \in {0, 200, 500}}
        \cup {[status |-> 429, headers |-> h] : h \in RateLimitHeaders}

NoResponse == [status |-> 0, headers |-> NoHeaders]

(***************************************************************************)
(* Client operations that are one call of _request.                        *)
(***************************************************************************)
ReadOps == {"AmplifierClient.get_order", "PrintfulClient.get_order"}

MutatingOps == {"AmplifierClient.create_order", "AmplifierClient.update_order",
                "AmplifierClient.delete_webhook", "PrintfulClient.create_order",
                "PrintfulClient.update_order", "PrintfulClient.delete_order"}

SingleOps == ReadOps \cup MutatingOps

MethodOf(o) ==
    CASE o \in {"AmplifierClient.create_order", "PrintfulClient.create_order"} -> "POST"
      [] o = "AmplifierClient.update_order" -> "PUT"
      [] o = "PrintfulClient.update_order" -> "PATCH"
      [] o \in {"AmplifierClient.delete_webhook", "PrintfulClient.delete_order"} -> "DELETE"
      [] OTHER -> "GET"

(***************************************************************************)
(* The remote system's data.  Its records are the numbers 1..Len(remote), *)
(* in server order.  A page-structured server (Amplifier, Shopify) cuts   *)
(* them into non-empty pages of sizes of its own choice; Printful serves  *)
(* the slice the offset and limit of the request ask for.  Every served   *)
(* page carries the paging data that matches it (total_pages, has_next,   *)
(* paging.total, the Link header).                                         *)
(***************************************************************************)
RECURSIVE SumTo(_, _)
SumTo(lens, k) == IF k = 0 THEN 0 ELSE SumTo(lens, k - 1) + lens[k]

RecordsUpTo(n) == [i \in 1..n |-> i]

\* page k of a page-structured server; a page past the last one is empty
ServerPage(k) ==
    IF k >= 1 /\ k <= Len(pageLens)
    THEN SubSeq(remote, SumTo(pageLens, k - 1) + 1, SumTo(pageLens, k))
    ELSE <<>>

\* records 1..k-1 pages of a page-structured server hold
PagesBefore(k) ==
    SubSeq(remote, 1, SumTo(pageLens, IF k - 1 <= Len(pageLens) THEN k - 1 ELSE Len(pageLens)))

Min(a, b) == IF a <= b THEN a ELSE b

\* GET /items/?page=p : Amplifier item list with its page count
AmplifierItemsBody(p) == [data |-> ServerPage(p), total_pages |-> Len(pageLens)]

\* GET /orders?page=p : Amplifier order list with its pagination object
AmplifierOrdersBody(p) == [orders |-> ServerPage(p), has_next |-> p < Len(pageLens)]

\* GET /v2/products?offset=o&limit=l : Printful slice with paging.total
PrintfulBody(o, l) ==
    [data |-> SubSeq(remote, o + 1, Min(o + l, Len(remote))), total |-> Len(remote)]

PageSizeLists == UNION {[1..n -> 1..MaxPageLen] : n \in 0..MaxPages}

PrintfulTotals ==
    {t \in {k * PrintfulLimit + d : k \in 0..MaxFullPages, d \in {-1, 0, 1}} : t >= 0}

(***************************************************************************)
(* Values an operation hands to its caller.                                *)
(***************************************************************************)
\* no label computed yet
NoLabel == "<none>"

\* no summary computed yet
NoSummary == [none |-> TRUE]

\* Python's None
None == "<None>"

NoValue == [kind |-> "none", records |-> <<>>, success |-> FALSE]

BodyValue == [kind |-> "body", records |-> <<>>, success |-> FALSE]

ListValue(records) == [kind |-> "list", records |-> records, success |-> FALSE]

PairValue(records, success) == [kind |-> "pair", records |-> records, success |-> success]

(***************************************************************************)
(* _request: one iteration of `for attempt in range(retry_count)`.        *)
(***************************************************************************)
NoSleep == <<>>

\* the 429 branch without its time.sleep
RateLimitNoSleep(secs) == <<>>

\* time.sleep(retry_after) of the 429 branch
RateLimitSleep(secs) == <<[kind |-> "rate_limit", secs |-> secs]>>

\* time.sleep(2 * attempt)
BackoffSleepLinear(a) == <<[kind |-> "backoff", secs |-> 2 * a]>>

\* time.sleep(2 ** attempt) of the two except branches
BackoffSleep(a) == <<[kind |-> "backoff", secs |-> Pow2(a)]>>

\* if attempt >= retry_count - 2
IsFinalAttemptEarly(a, rc) == a >= rc - 2

\* if attempt == retry_count - 1
IsFinalAttempt(a, rc) == a = rc - 1

\* the loop variable after `continue` or after the end of an except branch
NextAttempt(a) == a + 1

\* What the loop body does with answer r on the given attempt: the sleep it
\* makes and how the iteration ends ("return", "continue" with the next
\* iteration, or the exception that leaves _request).
LoopBody(r, a, rc) ==
    IF r.status = 0 \/ (r.status # 429 /\ RaisesForStatus(r.status))
    THEN \* except HTTPError / except RequestException
         IF IsFinalAttempt(a, rc)
         THEN [next |-> "ApiError", sleep |-> NoSleep]
         ELSE [next |-> "continue", sleep |-> BackoffSleep(a)]
    ELSE IF r.status = 429
    THEN LET ra == RetryAfter(r.headers) IN
         IF ~ra.ok
         THEN [next |-> "ValueError", sleep |-> NoSleep]
         ELSE [next |-> "continue", sleep |-> RateLimitSleep(ra.val)]
    ELSE [next |-> "return", sleep |-> NoSleep]

\* One iteration and the loop test after it: when range(retry_count) is
\* used up the loop ends and raise ...APIError("Max retries exceeded") runs.
HandleResponse(r, a, rc) ==
    LET b == LoopBody(r, a, rc) IN
    IF b.next # "continue" THEN b
    ELSE IF NextAttempt(a) < rc
         THEN [next |-> "retry", sleep |-> b.sleep]
         ELSE [next |-> "ApiError", sleep |-> b.sleep]

\* The part of an iteration every caller shares.
RequestIteration(r, h) ==
    /\ httpCount' = httpCount + 1
    /\ resps' = Append(resps, r.status)
    /\ lastResp' = r
    /\ sleeps' = sleeps \o h.sleep
    /\ attempt' = IF h.next = "retry" THEN NextAttempt(attempt) ELSE attempt
    /\ UNCHANGED <<method, retry_count>>

\* self._request(...) is entered
EnterRequest(m, rc) ==
    /\ method' = m
    /\ retry_count' = rc
    /\ attempt' = 0
    /\ resps' = <<>>
    /\ lastResp' = NoResponse
    /\ sleeps' = <<>>

(***************************************************************************)
(* Single-call operations: get_order, create_order, update_order, ...      *)
(***************************************************************************)
StartSingle ==
    /\ pc = "idle"
    /\ \E o \in SingleOps, rc \in 1..MaxRetryCount :
        /\ op' = o
        /\ EnterRequest(MethodOf(o), rc)
    /\ pc' = "request"
    /\ httpCount' = 0
    /\ outcome' = "none"
    /\ retval' = NoValue
    /\ failedPage' = 0
    /\ UNCHANGED <<serverVars, loopVars, cursorVars>>
    /\ UNCHANGED <<scriptVars, analysisVars>>

SingleRequest ==
    /\ pc = "request"
    /\ op \in SingleOps
    /\ \E r \in Responses :
        LET h == HandleResponse(r, attempt, retry_count) IN
        /\ RequestIteration(r, h)
        /\ pc' = IF h.next = "retry" THEN "request" ELSE "done"
        /\ outcome' = CASE h.next = "retry" -> "none"
                        [] h.next = "return" -> "returned"
                        [] OTHER -> h.next
        /\ retval' = IF h.next = "return" THEN BodyValue ELSE NoValue
    /\ UNCHANGED <<op, serverVars, loopVars, cursorVars, failedPage>>
    /\ UNCHANGED <<scriptVars, analysisVars>>

(***************************************************************************)
(* Offset/page-number fetch-all loops.                                     *)
(***************************************************************************)
AmplifierFetchAll == {"AmplifierClient.get_all_items", "AmplifierClient.get_all_orders"}

PrintfulFetchAll == {"PrintfulClient.get_all_products", "PrintfulClient.get_all_orders"}

OffsetOps == AmplifierFetchAll \cup PrintfulFetchAll

NoBody == [data |-> <<>>]

\* the body the remote system sends for the page the loop is asking for
PageBody(o, p, off) ==
    CASE o = "AmplifierClient.get_all_items" -> AmplifierItemsBody(p)
      [] o = "AmplifierClient.get_all_orders" -> AmplifierOrdersBody(p)
      [] OTHER -> PrintfulBody(off, PrintfulLimit)

\* response.get('data', []) / response.get('orders', [])
PageRecords(o, body) ==
    IF o = "AmplifierClient.get_all_orders" THEN body.orders ELSE body.data

\* the Printful test written as `offset + limit > total`
IsLastPageStrict(o, body, p, off) ==
    CASE o = "AmplifierClient.get_all_items" -> p >= body.total_pages
      [] o = "AmplifierClient.get_all_orders" -> ~body.has_next
      [] OTHER -> off + PrintfulLimit > body.total

\* the test that ends the loop after a non-empty page
IsLastPage(o, body, p, off) ==
    CASE o = "AmplifierClient.get_all_items" -> p >= body.total_pages
      [] o = "AmplifierClient.get_all_orders" -> ~body.has_next
      [] OTHER -> off + PrintfulLimit >= body.total

\* page += 1
NextPage(p) == p + 1

\* offset += limit - 1
NextOffsetOverlap(off, limit) == off + limit - 1

\* offset += limit
NextOffset(off, limit) == off + limit

\* 1-based number of the page request the loop is at
PageNo == IF op \in PrintfulFetchAll THEN offset \div PrintfulLimit + 1 ELSE page

StartFetchAll ==
    /\ pc = "idle"
    /\ \E o \in OffsetOps :
        /\ op' = o
        /\ IF o \in PrintfulFetchAll
           THEN \E t \in PrintfulTotals :
                    /\ remote' = RecordsUpTo(t)
                    /\ pageLens' = <<>>
           ELSE \E lens \in PageSizeLists :
                    /\ remote' = RecordsUpTo(SumTo(lens, Len(lens)))
                    /\ pageLens' = lens
    /\ page' = 1
    /\ offset' = 0
    /\ acc' = <<>>
    /\ delays' = 0
    /\ response' = NoBody
    /\ EnterRequest("GET", DefaultRetryCount)
    /\ pc' = "request"
    /\ httpCount' = 0
    /\ outcome' = "none"
    /\ retval' = NoValue
    /\ failedPage' = 0
    /\ UNCHANGED cursorVars
    /\ UNCHANGED <<scriptVars, analysisVars>>

\* get_items / get_orders / get_products: one iteration of _request on
\* behalf of the loop.  An exception leaves the loop and the fetch-all
\* method (neither has a try block).
PageRequest ==
    /\ pc = "request"
    /\ op \in OffsetOps
    /\ \E r \in Responses :
        LET h == HandleResponse(r, attempt, retry_count) IN
        /\ RequestIteration(r, h)
        /\ pc' = CASE h.next = "retry" -> "request"
                   [] h.next = "return" -> "page"
                   [] OTHER -> "done"
        /\ outcome' = IF h.next \in {"retry", "return"} THEN "none" ELSE h.next
        /\ failedPage' = IF h.next \in {"retry", "return"} THEN 0 ELSE PageNo
        /\ response' = IF h.next = "return" THEN PageBody(op, page, offset) ELSE response
    /\ UNCHANGED <<op, serverVars, page, offset, acc, delays, retval, cursorVars>>
    /\ UNCHANGED <<scriptVars, analysisVars>>

\* the loop body after the page arrived
ProcessPage ==
    /\ pc = "page"
    /\ op \in OffsetOps
    /\ LET items == PageRecords(op, response) IN
       IF items = <<>>
       THEN \* if not items: break
            /\ pc' = "done"
            /\ outcome' = "returned"
            /\ retval' = ListValue(acc)
            /\ UNCHANGED <<acc, page, offset, delays, requestVars>>
       ELSE /\ acc' = acc \o items
            /\ IF IsLastPage(op, response, page, offset)
               THEN /\ pc' = "done"
                    /\ outcome' = "returned"
                    /\ retval' = ListValue(acc \o items)
                    /\ UNCHANGED <<page, offset, delays, requestVars>>
               ELSE /\ page' = IF op \in AmplifierFetchAll THEN NextPage(page) ELSE page
                    /\ offset' = IF op \in PrintfulFetchAll
                                 THEN NextOffset(offset, PrintfulLimit) ELSE offset
                    /\ delays' = delays + 1
                    /\ EnterRequest("GET", DefaultRetryCount)
                    /\ pc' = "request"
                    /\ UNCHANGED <<outcome, retval>>
    /\ UNCHANGED <<op, serverVars, response, httpCount, cursorVars, failedPage>>
    /\ UNCHANGED <<scriptVars, analysisVars>>

(***************************************************************************)
(* Link headers.  A header value is the sequence of its lexical pieces:   *)
(* "<", ">", ";", ",", " ", a rel="..." attribute, or a URL.               *)
(***************************************************************************)
RelNext == "rel=\"next\""

RelPrevious == "rel=\"previous\""

BaseUrl == "/orders.json"

\* the URL the Shopify server hands out for page k
UrlOfPage(k) == "/orders.json?page_info=" \o ToString(k)

\* the page a request URL (a string, as its pieces) addresses
PageOfUrl(u) ==
    IF u = <<BaseUrl>> THEN 1
    ELSE IF \E k \in 1..(MaxPages + 1) : u = <<UrlOfPage(k)>>
         THEN CHOOSE k \in 1..(MaxPages + 1) : u = <<UrlOfPage(k)>>
         ELSE 0

\* the entries of the Link header of page k of n: rel="previous" when there
\* is an earlier page, rel="next" when there is a later one
LinkEntries(k, n, prevFirst) ==
    LET prev == IF k > 1 THEN <<[url |-> UrlOfPage(k - 1), rel |-> RelPrevious]>> ELSE <<>>
        next == IF k < n THEN <<[url |-> UrlOfPage(k + 1), rel |-> RelNext]>> ELSE <<>>
    IN IF prevFirst THEN prev \o next ELSE next \o prev

\* '<url>; rel="..."' entries joined by ', '
RECURSIVE FormatLink(_)
FormatLink(entries) ==
    IF entries = <<>> THEN <<>>
    ELSE LET e == entries[1]
             one == <<"<", e.url, ">", ";", " ", e.rel>>
         IN IF Len(entries) = 1 THEN one
            ELSE one \o <<",", " ">> \o FormatLink(Tail(entries))

\* needle in haystack, for a needle that is one lexical piece
Contains(str, piece) == \E i \in 1..Len(str) : str[i] = piece

\* str.split(sep): the parts between the occurrences of sep
RECURSIVE Split(_, _)
Split(str, sep) ==
    IF ~Contains(str, sep) THEN <<str>>
    ELSE LET i == CHOOSE j \in 1..Len(str) :
                      str[j] = sep /\ \A m \in 1..(j - 1) : str[m] # sep
         IN <<SubSeq(str, 1, i - 1)>> \o Split(SubSeq(str, i + 1, Len(str)), sep)

\* str.strip(chars)
RECURSIVE Strip(_, _)
Strip(str, chars) ==
    IF str = <<>> THEN <<>>
    ELSE IF str[1] \in chars THEN Strip(Tail(str), chars)
    ELSE IF str[Len(str)] \in chars THEN Strip(SubSeq(str, 1, Len(str) - 1), chars)
    ELSE str

\* next_link = link_header.split(',')[0].split(';')[0].strip('<> ')
NextLinkFirstEntry(link_header) ==
    Strip(Split(Split(link_header, ",")[1], ";")[1], {"<", ">", " "})

\* for link in link_header.split(','): if 'rel="next"' in link:
\*     next_link = link.split(';')[0].strip('<> '); break
NextLink(link_header) ==
    LET links == Split(link_header, ",")
        hits == {i \in 1..Len(links) : Contains(links[i], RelNext)}
    IN IF hits = {} THEN <<>>
       ELSE LET i == CHOOSE j \in hits : \A m \in hits : j <= m
            IN Strip(Split(links[i], ";")[1], {"<", ">", " "})

\* shopify_monthly_volume: parts = link.split(';'); if len(parts) == 2:
\*     url_part = parts[0].strip()[1:-1]; if 'rel="next"' in parts[1].strip(): ...
MonthlyNextLink(link_header) ==
    LET links == Split(link_header, ",")
        hits == {i \in 1..Len(links) :
                    LET parts == Split(links[i], ";") IN
                    Len(parts) = 2 /\ Contains(Strip(parts[2], {" "}), RelNext)}
    IN IF hits = {} THEN <<>>
       ELSE LET i == CHOOSE j \in hits : \A m \in hits : j <= m
                stripped == Strip(Split(links[i], ";")[1], {" "})
            IN SubSeq(stripped, 2, Len(stripped) - 1)

NoLink == [entries |-> <<>>, header |-> <<>>]

(***************************************************************************)
(* Cursor-link fetch-all loops of the Shopify scripts.                     *)
(***************************************************************************)
AnalyzerOps == {"FullSalesAnalyzer.fetch_all_orders", "ProgramBookAnalyzer.fetch_all_orders"}

MonthlyOp == "shopify_monthly_volume"

FetcherOp == "ShopifyOrderFetcher.fetch_orders"

CursorOps == AnalyzerOps \cup {MonthlyOp, FetcherOp}

\* the lines the scripts print about a fetch
FetchingLine == "Fetching orders from Shopify..."
PageLine == "Page: orders (Total)"
NetworkErrorLine == "Network error"
InvalidResponseLine == "Invalid API response"
ErrorFetchingLine == "Error fetching orders"
StatusErrorLine == "Error: status code"
FetchIncompleteLine == "WARNING: Fetch incomplete"
TotalFetchedLine == "Total orders fetched"

\* what the script prints before its first request
FetchHeading(o, filters) ==
    IF o = MonthlyOp THEN <<"SHOPIFY MONTHLY ORDER VOLUME ANALYSIS", FetchingLine>>
    ELSE IF o = FetcherOp
    THEN <<FetchingLine>>
         \o (IF "created_at_min" \in filters THEN <<"From">> ELSE <<>>)
         \o (IF "created_at_max" \in filters THEN <<"To">> ELSE <<>>)
    ELSE <<FetchingLine>>

\* what the except clause prints that catches a RequestException
RequestErrorLine(o) ==
    IF o = "FullSalesAnalyzer.fetch_all_orders" THEN NetworkErrorLine ELSE ErrorFetchingLine

\* what is printed for a body that is not JSON, when an except clause
\* catches the error: FullSalesAnalyzer's first clause catches it where the
\* error is a RequestException, its second clause elsewhere
BadJsonLines(o) ==
    IF o = "FullSalesAnalyzer.fetch_all_orders"
    THEN {NetworkErrorLine, InvalidResponseLine}
    ELSE {ErrorFetchingLine}

\* the line after the loop of fetch_all_orders
FetchSummaryLine(fetch_error) ==
    IF fetch_error THEN FetchIncompleteLine ELSE TotalFetchedLine

\* keys of the params dict of the first request
AnalyzerParams(filters) == {"status", "limit", "order"} \cup filters

MonthlyParams == {"limit", "status", "fields"}

DateFilters == SUBSET {"created_at_min", "created_at_max"}

\* answers of the Shopify server: a status (0: no response) and, with 200,
\* whether the body parses as JSON
CursorStatuses == {0, 200, 429, 500}

StartCursor ==
    /\ pc = "idle"
    /\ \E o \in CursorOps, lens \in PageSizeLists, filters \in DateFilters :
        /\ op' = o
        /\ remote' = RecordsUpTo(SumTo(lens, Len(lens)))
        /\ pageLens' = lens
        /\ params' = IF o = MonthlyOp THEN MonthlyParams ELSE AnalyzerParams(filters)
        /\ o = MonthlyOp => filters = {}
        /\ console' = FetchHeading(o, filters)
        /\ page' = IF o = MonthlyOp THEN 0 ELSE 1
    /\ url' = <<BaseUrl>>
    /\ lastReq' = [url |-> <<>>, params |-> {}]
    /\ lastLink' = NoLink
    /\ offset' = 0
    /\ acc' = <<>>
    /\ delays' = 0
    /\ response' = NoBody
    /\ pc' = "fetch"
    /\ httpCount' = 0
    /\ outcome' = "none"
    /\ retval' = NoValue
    /\ failedPage' = 0
    /\ lastResp' = NoResponse
    /\ built' = FALSE
    /\ ended' = FALSE
    /\ UNCHANGED <<method, retry_count, attempt, resps, sleeps>>
    /\ UNCHANGED analysisVars

\* return all_orders, fetch_error
AnalyzerReturnFlagNotNegated(records, fetch_error) ==
    /\ pc' = "done"
    /\ outcome' = "returned"
    /\ retval' = PairValue(records, fetch_error)
    /\ failedPage' = IF fetch_error THEN page ELSE 0

\* a fetch that found nothing raises instead of returning
AnalyzerReturnRaisingOnEmpty(records, fetch_error) ==
    /\ pc' = "done"
    /\ outcome' = IF records = <<>> THEN "ValueError" ELSE "returned"
    /\ retval' = IF records = <<>> THEN NoValue ELSE PairValue(records, ~fetch_error)
    /\ failedPage' = IF fetch_error THEN page ELSE 0

\* the loop ends and fetch_all_orders returns (all_orders, not fetch_error)
AnalyzerReturn(records, fetch_error) ==
    /\ pc' = "done"
    /\ outcome' = "returned"
    /\ retval' = PairValue(records, ~fetch_error)
    /\ failedPage' = IF fetch_error THEN page ELSE 0

\* the loop of ShopifyOrderFetcher.fetch_orders ends and all_orders is
\* returned; the error that ended the loop is kept in no flag
FetcherReturn(records, fetch_failed) ==
    /\ pc' = "done"
    /\ outcome' = "returned"
    /\ retval' = ListValue(records)
    /\ failedPage' = IF fetch_failed THEN page ELSE 0

\* whether the except clauses of the loop catch the error response.json()
\* raises for a body that is not JSON: FullSalesAnalyzer names ValueError;
\* ProgramBookAnalyzer names only RequestException, which the error is a
\* subclass of in some versions of the requests library and not in others.
CatchesBadJson(o) ==
    IF o = "FullSalesAnalyzer.fetch_all_orders" THEN {TRUE} ELSE {TRUE, FALSE}

\* one pass of `while True:` in fetch_all_orders
FetchPage ==
    /\ pc = "fetch"
    /\ op \in AnalyzerOps
    /\ httpCount' = httpCount + 1
    /\ lastReq' = [url |-> url, params |-> params]
    /\ \E status \in CursorStatuses, jsonOk \in BOOLEAN, prevFirst \in BOOLEAN :
        LET k == PageOfUrl(url)
            orders == ServerPage(k)
            entries == LinkEntries(k, Len(pageLens), prevFirst)
            link_header == FormatLink(entries)
            next_link == NextLink(link_header)
        IN
        /\ status # 200 => (jsonOk /\ prevFirst)
        /\ lastResp' = [status |-> status, headers |-> NoHeaders, json |-> jsonOk]
        /\ IF status = 0 \/ RaisesForStatus(status)
           THEN \* except requests.exceptions.RequestException
                /\ AnalyzerReturn(acc, TRUE)
                /\ console' = console \o <<RequestErrorLine(op), FetchSummaryLine(TRUE)>>
                /\ lastLink' = NoLink
                /\ UNCHANGED <<acc, url, params, page>>
           ELSE IF ~jsonOk
           THEN /\ prevFirst
                /\ lastLink' = NoLink
                /\ \E caught \in CatchesBadJson(op) :
                    IF caught
                    THEN /\ AnalyzerReturn(acc, TRUE)
                         /\ \E line \in BadJsonLines(op) :
                             console' = console \o <<line, FetchSummaryLine(TRUE)>>
                    ELSE /\ pc' = "done"
                         /\ outcome' = "ValueError"
                         /\ retval' = NoValue
                         /\ failedPage' = page
                         /\ UNCHANGED console
                /\ UNCHANGED <<acc, url, params, page>>
           ELSE /\ lastLink' = [entries |-> entries, header |-> link_header]
                /\ IF orders = <<>>
                   THEN \* if not orders: break
                        /\ AnalyzerReturn(acc, FALSE)
                        /\ console' = console \o <<FetchSummaryLine(FALSE)>>
                        /\ UNCHANGED <<acc, url, params, page>>
                   ELSE /\ acc' = acc \o orders
                        /\ IF ~Contains(link_header, RelNext) \/ next_link = <<>>
                           THEN /\ AnalyzerReturn(acc \o orders, FALSE)
                                /\ console' = console \o <<PageLine, FetchSummaryLine(FALSE)>>
                                /\ UNCHANGED <<url, params, page>>
                           ELSE /\ url' = next_link
                                /\ params' = {}
                                /\ page' = page + 1
                                /\ console' = console \o <<PageLine>>
                                /\ UNCHANGED <<pc, outcome, retval, failedPage>>
    /\ UNCHANGED <<op, serverVars, method, retry_count, attempt, resps, sleeps,
                   offset, response, delays, built, ended>>
    /\ UNCHANGED analysisVars

\* one pass of `while True:` in ShopifyOrderFetcher.fetch_orders, which has
\* no fetch_error flag: whatever ended the loop, the line after the loop
\* reports the total and the list is returned alone.  Its one except clause
\* names RequestException.
FetcherFetchPage ==
    /\ pc = "fetch"
    /\ op = FetcherOp
    /\ httpCount' = httpCount + 1
    /\ lastReq' = [url |-> url, params |-> params]
    /\ \E status \in CursorStatuses, jsonOk \in BOOLEAN, prevFirst \in BOOLEAN :
        LET k == PageOfUrl(url)
            orders == ServerPage(k)
            entries == LinkEntries(k, Len(pageLens), prevFirst)
            link_header == FormatLink(entries)
            next_link == NextLink(link_header)
        IN
        /\ status # 200 => (jsonOk /\ prevFirst)
        /\ lastResp' = [status |-> status, headers |-> NoHeaders, json |-> jsonOk]
        /\ IF status = 0 \/ RaisesForStatus(status)
           THEN \* except requests.exceptions.RequestException
                /\ FetcherReturn(acc, TRUE)
                /\ console' = console \o <<ErrorFetchingLine, TotalFetchedLine>>
                /\ lastLink' = NoLink
                /\ UNCHANGED <<acc, url, params, page>>
           ELSE IF ~jsonOk
           THEN /\ prevFirst
                /\ lastLink' = NoLink
                /\ \E caught \in CatchesBadJson(op) :
                    IF caught
                    THEN /\ FetcherReturn(acc, TRUE)
                         /\ console' = console \o <<ErrorFetchingLine, TotalFetchedLine>>
                    ELSE /\ pc' = "done"
                         /\ outcome' = "ValueError"
                         /\ retval' = NoValue
                         /\ failedPage' = page
                         /\ UNCHANGED console
                /\ UNCHANGED <<acc, url, params, page>>
           ELSE /\ lastLink' = [entries |-> entries, header |-> link_header]
                /\ IF orders = <<>>
                   THEN \* if not orders: break
                        /\ FetcherReturn(acc, FALSE)
                        /\ console' = console \o <<TotalFetchedLine>>
                        /\ UNCHANGED <<acc, url, params, page>>
                   ELSE /\ acc' = acc \o orders
                        /\ IF ~Contains(link_header, RelNext) \/ next_link = <<>>
                           THEN /\ FetcherReturn(acc \o orders, FALSE)
                                /\ console' = console \o <<PageLine, TotalFetchedLine>>
                                /\ UNCHANGED <<url, params, page>>
                           ELSE /\ url' = next_link
                                /\ params' = {}
                                /\ page' = page + 1
                                /\ console' = console \o <<PageLine>>
                                /\ UNCHANGED <<pc, outcome, retval, failedPage>>
    /\ UNCHANGED <<op, serverVars, method, retry_count, attempt, resps, sleeps,
                   offset, response, delays, built, ended>>
    /\ UNCHANGED analysisVars

\* one pass of `while url:` in shopify_monthly_volume
MonthlyFetchPage ==
    /\ pc = "fetch"
    /\ op = MonthlyOp
    /\ httpCount' = httpCount + 1
    /\ page' = page + 1
    /\ lastReq' = [url |-> url, params |-> IF page + 1 = 1 THEN params ELSE {}]
    /\ \E status \in CursorStatuses, jsonOk \in BOOLEAN, prevFirst \in BOOLEAN :
        LET k == PageOfUrl(url)
            orders == ServerPage(k)
            entries == LinkEntries(k, Len(pageLens), prevFirst)
            link_header == FormatLink(entries)
            next_url == MonthlyNextLink(link_header)
        IN
        /\ status # 200 => (jsonOk /\ prevFirst)
        /\ lastResp' = [status |-> status, headers |-> NoHeaders, json |-> jsonOk]
        /\ IF status = 0
           THEN \* requests.get raises; nothing catches it
                /\ pc' = "done"
                /\ outcome' = "RequestException"
                /\ retval' = NoValue
                /\ failedPage' = page + 1
                /\ lastLink' = NoLink
                /\ UNCHANGED <<acc, url, console>>
           ELSE IF status # 200
           THEN \* if response.status_code != 200: break
                /\ pc' = "done"
                /\ outcome' = "returned"
                /\ retval' = ListValue(acc)
                /\ failedPage' = page + 1
                /\ lastLink' = NoLink
                /\ console' = console \o <<StatusErrorLine, TotalFetchedLine>>
                /\ UNCHANGED <<acc, url>>
           ELSE IF ~jsonOk
           THEN /\ prevFirst
                /\ pc' = "done"
                /\ outcome' = "ValueError"
                /\ retval' = NoValue
                /\ failedPage' = page + 1
                /\ lastLink' = NoLink
                /\ UNCHANGED <<acc, url, console>>
           ELSE /\ acc' = acc \o orders
                /\ lastLink' = [entries |-> entries, header |-> link_header]
                /\ url' = next_url
                /\ failedPage' = 0
                /\ IF next_url = <<>>
                   THEN /\ pc' = "done"
                        /\ outcome' = "returned"
                        /\ retval' = ListValue(acc \o orders)
                        /\ console' = console \o <<PageLine, TotalFetchedLine>>
                   ELSE /\ console' = console \o <<PageLine>>
                        /\ UNCHANGED <<pc, outcome, retval>>
    /\ UNCHANGED <<op, serverVars, method, retry_count, attempt, resps, sleeps,
                   offset, response, delays, params, built, ended>>
    /\ UNCHANGED analysisVars

(***************************************************************************)
(* What the scripts do with the fetched orders.  The orders are opaque     *)
(* records here, so whether any row or any order is left after the         *)
(* script's own selection is a choice.                                     *)
(***************************************************************************)
IncompleteDataLine == "WARNING: Data may be incomplete"
TracebackLine == "Traceback (most recent call last):"
NoOrdersLine == "No orders found."

\* the run ends without a report: sys.exit(1), or an exception nothing catches
ExitWith(lines) ==
    /\ console' = console \o lines
    /\ built' = FALSE
    /\ ended' = TRUE

\* the run ends with its report printed and its files written
BuildWith(lines) ==
    /\ console' = console \o lines
    /\ built' = TRUE
    /\ ended' = TRUE

\* main of full_sales_analysis.py after fetch_all_orders
FullSalesMain ==
    /\ pc = "done"
    /\ op = "FullSalesAnalyzer.fetch_all_orders"
    /\ ~ended
    /\ IF outcome # "returned" THEN ExitWith(<<TracebackLine>>)
       ELSE IF retval.records = <<>> THEN ExitWith(<<NoOrdersLine>>)
       ELSE \E has_sales \in BOOLEAN :
            IF ~has_sales
            THEN ExitWith(<<"Analyzing all sales...", "No sales found.">>)
            ELSE BuildWith(<<"Analyzing all sales...", "Found line items",
                             "FULL SALES ANALYSIS - EXECUTIVE SUMMARY",
                             "Exporting detailed data", "Exporting product summary",
                             "Exporting category summary", "Exporting trends",
                             "ANALYSIS COMPLETE!">>
                           \o (IF ~retval.success THEN <<IncompleteDataLine>> ELSE <<>>))
    /\ UNCHANGED <<op, pc, requestVars, httpCount, outcome, serverVars, loopVars, retval,
                   cursorVars, failedPage>>
    /\ UNCHANGED analysisVars

\* main of program_book_sales_analysis.py after fetch_all_orders
ProgramBookMain ==
    /\ pc = "done"
    /\ op = "ProgramBookAnalyzer.fetch_all_orders"
    /\ ~ended
    /\ IF outcome # "returned" THEN ExitWith(<<TracebackLine>>)
       ELSE IF retval.records = <<>> THEN ExitWith(<<NoOrdersLine>>)
       ELSE \E has_sales \in BOOLEAN :
            IF ~has_sales
            THEN ExitWith(<<"Analyzing orders for program book sales...",
                            "No program book sales found in the orders.">>)
            ELSE BuildWith(<<"Analyzing orders for program book sales...",
                             "Found program book line items",
                             "PROGRAM BOOK SALES ANALYSIS - EXECUTIVE SUMMARY",
                             "Exporting detailed data", "Exporting summary",
                             "ANALYSIS COMPLETE!">>
                           \o (IF ~retval.success THEN <<IncompleteDataLine>>
                               ELSE <<"These files can be opened in Excel/Google Sheets">>))
    /\ UNCHANGED <<op, pc, requestVars, httpCount, outcome, serverVars, loopVars, retval,
                   cursorVars, failedPage>>
    /\ UNCHANGED analysisVars

\* main of shopify_order_fetcher.py after fetch_orders
OrderFetcherMain ==
    /\ pc = "done"
    /\ op = FetcherOp
    /\ ~ended
    /\ IF outcome # "returned" THEN ExitWith(<<TracebackLine>>)
       ELSE IF retval.records = <<>> THEN ExitWith(<<"No orders found. Exiting.">>)
       ELSE \E has_filtered \in BOOLEAN :
            IF ~has_filtered
            THEN ExitWith(<<"No orders match the filters. Exiting.">>)
            ELSE \E format \in {"csv", "json", "both"} :
                 BuildWith(<<"ORDER SUMMARY">>
                           \o (IF format \in {"csv", "both"} THEN <<"Saving to CSV">> ELSE <<>>)
                           \o (IF format \in {"json", "both"} THEN <<"Saving to JSON">> ELSE <<>>)
                           \o <<"DONE!", "Exported orders">>)
    /\ UNCHANGED <<op, pc, requestVars, httpCount, outcome, serverVars, loopVars, retval,
                   cursorVars, failedPage>>
    /\ UNCHANGED analysisVars

\* shopify_monthly_volume.py after its loop: the statistics of an empty list
\* raise (sorted_months[0])
MonthlyVolumeReport ==
    /\ pc = "done"
    /\ op = MonthlyOp
    /\ ~ended
    /\ IF outcome # "returned" THEN ExitWith(<<TracebackLine>>)
       ELSE IF retval.records = <<>>
       THEN ExitWith(<<"MONTHLY ORDER BREAKDOWN", "STATISTICS", TracebackLine>>)
       ELSE BuildWith(<<"MONTHLY ORDER BREAKDOWN", "STATISTICS", "YEARLY BREAKDOWN:",
                        "LAST 12 MONTHS:", "REVENUE ANALYSIS:">>)
    /\ UNCHANGED <<op, pc, requestVars, httpCount, outcome, serverVars, loopVars, retval,
                   cursorVars, failedPage>>
    /\ UNCHANGED analysisVars

(***************************************************************************)
(* Python strings and regular expressions, as far as the classifiers use   *)
(* them.  A string is a TLA+ string; positions count from 1.               *)
(***************************************************************************)
CharAt(s, i) == SubSeq(s, i, i)

LowerLetters == "abcdefghijklmnopqrstuvwxyz"

UpperLetters == "ABCDEFGHIJKLMNOPQRSTUVWXYZ"

\* position of character c in alphabet, 0 when it is not in it
IndexIn(alphabet, c) ==
    IF \E i \in 1..Len(alphabet) : CharAt(alphabet, i) = c
    THEN CHOOSE i \in 1..Len(alphabet) : CharAt(alphabet, i) = c
    ELSE 0

\* str.lower()
RECURSIVE lower(_)
lower(s) ==
    IF s = "" THEN ""
    ELSE LET k == IndexIn(UpperLetters, Head(s))
         IN (IF k = 0 THEN Head(s) ELSE CharAt(LowerLetters, k)) \o lower(Tail(s))

\* str.upper()
RECURSIVE upper(_)
upper(s) ==
    IF s = "" THEN ""
    ELSE LET k == IndexIn(LowerLetters, Head(s))
         IN (IF k = 0 THEN Head(s) ELSE CharAt(UpperLetters, k)) \o upper(Tail(s))

\* str.startswith(prefix)
startswith(s, prefix) == Len(s) >= Len(prefix) /\ SubSeq(s, 1, Len(prefix)) = prefix

\* the positions at which sub occurs in s
Occurrences(sub, s) ==
    {i \in 1..(Len(s) - Len(sub) + 1) : SubSeq(s, i, i + Len(sub) - 1) = sub}

\* sub in s
InString(sub, s) == Occurrences(sub, s) # {}

\* s.rfind(sub): the 0-based index of the last occurrence, -1 when there is none
rfind(s, sub) ==
    IF Occurrences(sub, s) = {} THEN -1
    ELSE (CHOOSE i \in Occurrences(sub, s) : \A j \in Occurrences(sub, s) : j <= i) - 1

\* str.strip()
RECURSIVE strip(_)
strip(s) ==
    IF s = "" THEN ""
    ELSE IF Head(s) = " " THEN strip(Tail(s))
    ELSE IF CharAt(s, Len(s)) = " " THEN strip(SubSeq(s, 1, Len(s) - 1))
    ELSE s

\* int(s) for a string of decimal digits
RECURSIVE int(_)
int(s) ==
    IF s = "" THEN 0
    ELSE 10 * int(SubSeq(s, 1, Len(s) - 1)) + DigitValue(CharAt(s, Len(s)))

\* \w of a regular expression
IsWordChar(c) ==
    IndexIn(LowerLetters, c) # 0 \/ IndexIn(UpperLetters, c) # 0 \/ IsDigit(c) \/ c = "_"

\* the nodes of a regular expression
Lit(str) == [t |-> "lit", a |-> str]

Cat(xs) == [t |-> "cat", a |-> xs]

Alt(xs) == [t |-> "alt", a |-> xs]

Opt(x) == [t |-> "opt", a |-> x]

Star(x) == [t |-> "star", a |-> x]

Plus(x) == [t |-> "plus", a |-> x]

Space == [t |-> "class", a |-> "s"]

Digit == [t |-> "class", a |-> "d"]

AnyChar == [t |-> "class", a |-> "."]

WordBoundary == [t |-> "at", a |-> "b"]

Beginning == [t |-> "at", a |-> "^"]

End == [t |-> "at", a |-> "$"]

Empty == Cat(<<>>)

\* character c belongs to class \s, \d or .
InClass(class, c) ==
    CASE class = "s" -> c = " "
      [] class = "d" -> IsDigit(c)
      [] OTHER -> TRUE

\* the zero-width assertion \b, ^ or $ holds at position i of s
AssertionHolds(kind, s, i) ==
    CASE kind = "^" -> i = 1
      [] kind = "$" -> i = Len(s) + 1
      [] OTHER -> (i > 1 /\ IsWordChar(CharAt(s, i - 1)))
                      # (i <= Len(s) /\ IsWordChar(CharAt(s, i)))

\* Ends(re, s, i): the positions right after a match of re that starts at
\* position i of s
RECURSIVE Ends(_, _, _)
RECURSIVE EndsAll(_, _, _)
RECURSIVE EndsCat(_, _, _, _)
RECURSIVE EndsStar(_, _, _)
Ends(re, s, i) ==
    CASE re.t = "lit" ->
             IF i + Len(re.a) - 1 <= Len(s) /\ SubSeq(s, i, i + Len(re.a) - 1) = re.a
             THEN {i + Len(re.a)} ELSE {}
      [] re.t = "class" ->
             IF i <= Len(s) /\ InClass(re.a, CharAt(s, i)) THEN {i + 1} ELSE {}
      [] re.t = "at" -> IF AssertionHolds(re.a, s, i) THEN {i} ELSE {}
      [] re.t = "cat" -> EndsCat(re.a, 1, s, {i})
      [] re.t = "alt" -> UNION {Ends(re.a[k], s, i) : k \in DOMAIN re.a}
      [] re.t = "opt" -> {i} \cup Ends(re.a, s, i)
      [] re.t = "star" -> EndsStar(re.a, s, {i})
      [] OTHER -> EndsStar(re.a, s, Ends(re.a, s, i))

EndsAll(re, s, from) == UNION {Ends(re, s, i) : i \in from}

EndsCat(xs, k, s, from) ==
    IF k > Len(xs) \/ from = {} THEN from
    ELSE EndsCat(xs, k + 1, s, EndsAll(xs[k], s, from))

EndsStar(re, s, from) ==
    LET more == from \cup EndsAll(re, s, from)
    IN IF more = from THEN from ELSE EndsStar(re, s, more)

\* re.search(pattern, s) finds a match
Search(pattern, s) == \E i \in 1..(Len(s) + 1) : Ends(pattern, s, i) # {}

Maximum(S) == CHOOSE x \in S : \A y \in S : y <= x

Minimum(S) == CHOOSE x \in S : \A y \in S : x <= y

\* the matches of prefix(group)suffix that start at position i of s, each as
\* the pair of the positions where the group starts and ends
GroupMatches(prefix, group, suffix, s, i) ==
    {m \in Ends(prefix, s, i) \X (1..(Len(s) + 1)) :
        m[2] \in Ends(group, s, m[1]) /\ Ends(suffix, s, m[2]) # {}}

\* re.search(r'prefix(group)suffix', s): whether there is a match, and
\* group(1) of the leftmost match, its quantifiers being greedy
SearchGroup(prefix, group, suffix, s) ==
    LET starts == {i \in 1..(Len(s) + 1) : GroupMatches(prefix, group, suffix, s, i) # {}}
    IN IF starts = {} THEN [found |-> FALSE, group |-> ""]
       ELSE LET ms == GroupMatches(prefix, group, suffix, s, Minimum(starts))
                from == Maximum({m[1] : m \in ms})
                to == Maximum({m[2] : m \in {n \in ms : n[1] = from}})
            IN [found |-> TRUE, group |-> SubSeq(s, from, to - 1)]

(***************************************************************************)
(* The classifiers of FullSalesAnalyzer and ProgramBookAnalyzer.           *)
(***************************************************************************)
CATEGORY_RULES == <<
    \* program\s*book|programme\s*book|souvenir\s*program
    [pattern |-> Alt(<<Cat(<<Lit("program"), Star(Space), Lit("book")>>),
                       Cat(<<Lit("programme"), Star(Space), Lit("book")>>),
                       Cat(<<Lit("souvenir"), Star(Space), Lit("program")>>)>>),
     category |-> "Program Books", match_field |-> "title"],
    \* BOOK$|SOUV$
    [pattern |-> Alt(<<Cat(<<Lit("BOOK"), End>>), Cat(<<Lit("SOUV"), End>>)>>),
     category |-> "Program Books", match_field |-> "sku"],
    \* ^POLARBOOK
    [pattern |-> Cat(<<Beginning, Lit("POLARBOOK")>>),
     category |-> "Program Books", match_field |-> "sku"],
    \* t-?shirt|tee\b|shirt
    [pattern |-> Alt(<<Cat(<<Lit("t"), Opt(Lit("-")), Lit("shirt")>>),
                       Cat(<<Lit("tee"), WordBoundary>>), Lit("shirt")>>),
     category |-> "Apparel - T-Shirts", match_field |-> "title"],
    \* hoodie|sweatshirt|sweater|pullover
    [pattern |-> Alt(<<Lit("hoodie"), Lit("sweatshirt"), Lit("sweater"), Lit("pullover")>>),
     category |-> "Apparel - Hoodies/Sweatshirts", match_field |-> "title"],
    \* jacket|coat|outerwear
    [pattern |-> Alt(<<Lit("jacket"), Lit("coat"), Lit("outerwear")>>),
     category |-> "Apparel - Outerwear", match_field |-> "title"],
    \* hat|cap|beanie
    [pattern |-> Alt(<<Lit("hat"), Lit("cap"), Lit("beanie")>>),
     category |-> "Apparel - Headwear", match_field |-> "title"],
    \* socks?|sock\b
    [pattern |-> Alt(<<Cat(<<Lit("sock"), Opt(Lit("s"))>>),
                       Cat(<<Lit("sock"), WordBoundary>>)>>),
     category |-> "Apparel - Socks", match_field |-> "title"],
    \* poster|print|art\s*print
    [pattern |-> Alt(<<Lit("poster"), Lit("print"),
                       Cat(<<Lit("art"), Star(Space), Lit("print")>>)>>),
     category |-> "Posters & Prints", match_field |-> "title"],
    \* mug|cup|tumbler|drinkware
    [pattern |-> Alt(<<Lit("mug"), Lit("cup"), Lit("tumbler"), Lit("drinkware")>>),
     category |-> "Drinkware", match_field |-> "title"],
    \* pin|enamel\s*pin|lapel
    [pattern |-> Alt(<<Lit("pin"), Cat(<<Lit("enamel"), Star(Space), Lit("pin")>>),
                       Lit("lapel")>>),
     category |-> "Pins & Badges", match_field |-> "title"],
    \* keychain|key\s*chain|lanyard
    [pattern |-> Alt(<<Lit("keychain"), Cat(<<Lit("key"), Star(Space), Lit("chain")>>),
                       Lit("lanyard")>>),
     category |-> "Keychains & Lanyards", match_field |-> "title"],
    \* bag|tote|backpack|pouch
    [pattern |-> Alt(<<Lit("bag"), Lit("tote"), Lit("backpack"), Lit("pouch")>>),
     category |-> "Bags & Totes", match_field |-> "title"],
    \* sticker|decal
    [pattern |-> Alt(<<Lit("sticker"), Lit("decal")>>),
     category |-> "Stickers", match_field |-> "title"],
    \* magnet
    [pattern |-> Lit("magnet"),
     category |-> "Magnets", match_field |-> "title"],
    \* patch|iron.on
    [pattern |-> Alt(<<Lit("patch"), Cat(<<Lit("iron"), AnyChar, Lit("on")>>)>>),
     category |-> "Patches", match_field |-> "title"],
    \* wand|replica
    [pattern |-> Alt(<<Lit("wand"), Lit("replica")>>),
     category |-> "Collectibles & Replicas", match_field |-> "title"],
    \* ornament
    [pattern |-> Lit("ornament"),
     category |-> "Ornaments", match_field |-> "title"],
    \* figure|figurine|statue
    [pattern |-> Alt(<<Lit("figure"), Lit("figurine"), Lit("statue")>>),
     category |-> "Figures & Statues", match_field |-> "title"],
    \* vinyl|record|lp\b|album
    [pattern |-> Alt(<<Lit("vinyl"), Lit("record"), Cat(<<Lit("lp"), WordBoundary>>),
                       Lit("album")>>),
     category |-> "Vinyl & Music", match_field |-> "title"],
    \* cd\b|soundtrack
    [pattern |-> Alt(<<Cat(<<Lit("cd"), WordBoundary>>), Lit("soundtrack")>>),
     category |-> "CDs & Soundtracks", match_field |-> "title"],
    \* dvd|blu-?ray|video
    [pattern |-> Alt(<<Lit("dvd"), Cat(<<Lit("blu"), Opt(Lit("-")), Lit("ray")>>),
                       Lit("video")>>),
     category |-> "DVDs & Video", match_field |-> "title"],
    \* ticket|admission|vip|meet.*greet|photo\s*op
    [pattern |-> Alt(<<Lit("ticket"), Lit("admission"), Lit("vip"),
                       Cat(<<Lit("meet"), Star(AnyChar), Lit("greet")>>),
                       Cat(<<Lit("photo"), Star(Space), Lit("op")>>)>>),
     category |-> "Tickets & Experiences", match_field |-> "title"],
    \* bundle|pack|set|collection|combo
    [pattern |-> Alt(<<Lit("bundle"), Lit("pack"), Lit("set"), Lit("collection"),
                       Lit("combo")>>),
     category |-> "Bundles & Sets", match_field |-> "title"],
    \* gift\s*card|e-?gift|voucher
    [pattern |-> Alt(<<Cat(<<Lit("gift"), Star(Space), Lit("card")>>),
                       Cat(<<Lit("e"), Opt(Lit("-")), Lit("gift")>>), Lit("voucher")>>),
     category |-> "Gift Cards", match_field |-> "title"]
>>

\* a rule list visited from its last rule to its first
RuleAtReversed(k) == CATEGORY_RULES[Len(CATEGORY_RULES) + 1 - k]

\* the k-th rule visited by `for rule in self.CATEGORY_RULES`
RuleAt(k) == CATEGORY_RULES[k]

\* the string a rule is matched against
MatchField(rule, title_lower, sku_upper) ==
    IF rule.match_field = "sku" THEN sku_upper ELSE title_lower

\* the rule loop of categorize_product from its k-th iteration on
RECURSIVE RuleLoop(_, _, _)
RuleLoop(k, title_lower, sku_upper) ==
    IF k > Len(CATEGORY_RULES) THEN "Other"
    ELSE IF Search(RuleAt(k).pattern, MatchField(RuleAt(k), title_lower, sku_upper))
         THEN RuleAt(k).category
         ELSE RuleLoop(k + 1, title_lower, sku_upper)

\* FullSalesAnalyzer.categorize_product(title, sku)
categorize_product(item_title, item_sku) == RuleLoop(1, lower(item_title), upper(item_sku))

\* film_names of FullSalesAnalyzer.extract_show_name
FullFilmNames == <<
    "Harry Potter 1 (Sorcerer's Stone)",
    "Harry Potter 2 (Chamber of Secrets)",
    "Harry Potter 3 (Prisoner of Azkaban)",
    "Harry Potter 4 (Goblet of Fire)",
    "Harry Potter 5 (Order of the Phoenix)",
    "Harry Potter 6 (Half-Blood Prince)",
    "Harry Potter 7 (Deathly Hallows Pt 1)",
    "Harry Potter 8 (Deathly Hallows Pt 2)" >>

\* film_names of ProgramBookAnalyzer.extract_show_name
BookFilmNames == <<
    "Harry Potter and the Sorcerer's Stone",
    "Harry Potter and the Chamber of Secrets",
    "Harry Potter and the Prisoner of Azkaban",
    "Harry Potter and the Goblet of Fire",
    "Harry Potter and the Order of the Phoenix",
    "Harry Potter and the Half-Blood Prince",
    "Harry Potter and the Deathly Hallows Part 1",
    "Harry Potter and the Deathly Hallows Part 2" >>

\* 'harry potter' in title_lower or sku_upper.startswith('HP')
IsHarryPotter(title_lower, sku_upper) ==
    InString("harry potter", title_lower) \/ startswith(sku_upper, "HP")

\* HP(\d) in place of HP(\d+): only the first digit is read
SkuFilmMatchOneDigit(sku_upper) == SearchGroup(Lit("HP"), Digit, Empty, sku_upper)

\* re.search(r'HP(\d+)', sku_upper)
SkuFilmMatch(sku_upper) == SearchGroup(Lit("HP"), Plus(Digit), Empty, sku_upper)

\* re.search(r'(?:film\s*#?|#)(\d+)\b', title_lower)
TitleFilmMatch(title_lower) ==
    SearchGroup(Alt(<<Cat(<<Lit("film"), Star(Space), Opt(Lit("#"))>>), Lit("#")>>),
                Plus(Digit), WordBoundary, title_lower)

\* `if match: film_num = int(match.group(1)); if 1 <= film_num <= 8:`
InFilmTable(match) ==
    match.found /\ 1 <= int(match.group) /\ int(match.group) <= LastFilm

\* the chain of `if re.search(...) or sku_upper.startswith(...)` after the
\* Harry Potter branch of FullSalesAnalyzer.extract_show_name
OtherShows(title_lower, sku_upper) ==
    LET word(xs) == Cat(<<WordBoundary>> \o xs \o <<WordBoundary>>)
    IN IF Search(word(<<Lit("polar"), Star(Space), Lit("express")>>), title_lower)
             \/ startswith(sku_upper, "POLAR") THEN "The Polar Express"
       ELSE IF Search(word(<<Lit("elf")>>), title_lower)
             \/ startswith(sku_upper, "ELF") THEN "Elf"
       ELSE IF Search(word(<<Lit("home"), Star(Space), Lit("alone")>>), title_lower)
             \/ startswith(sku_upper, "HA") THEN "Home Alone"
       ELSE IF Search(word(<<Lit("godfather")>>), title_lower)
             \/ startswith(sku_upper, "GF") THEN "The Godfather"
       ELSE IF Search(word(<<Lit("star"), Star(Space), Lit("trek")>>), title_lower)
             \/ startswith(sku_upper, "ST") THEN "Star Trek"
       ELSE IF Search(word(<<Lit("jurassic")>>), title_lower)
             \/ startswith(sku_upper, "JP") THEN "Jurassic Park"
       ELSE IF Search(word(<<Lit("back"), Star(Space), Lit("to"), Star(AnyChar),
                             Lit("future")>>), title_lower)
             \/ startswith(sku_upper, "BTTF") THEN "Back to the Future"
       ELSE IF Search(word(<<Lit("gladiator")>>), title_lower)
             \/ startswith(sku_upper, "GLAD") THEN "Gladiator"
       ELSE IF Search(word(<<Lit("titanic")>>), title_lower)
             \/ startswith(sku_upper, "TIT") THEN "Titanic"
       ELSE "Other/General"

\* FullSalesAnalyzer.extract_show_name(title, sku)
extract_show_name(item_title, item_sku) ==
    LET title_lower == lower(item_title)
        sku_upper == upper(item_sku)
    IN IF IsHarryPotter(title_lower, sku_upper)
       THEN IF InFilmTable(SkuFilmMatch(sku_upper))
            THEN FullFilmNames[int(SkuFilmMatch(sku_upper).group)]
            ELSE "Harry Potter (General)"
       ELSE OtherShows(title_lower, sku_upper)

\* the suffixes the generic extraction of ProgramBookAnalyzer removes
TitleSuffixes == <<"- Program Book", "- Souvenir Program", "Program Book",
                   "Souvenir Program", "- Collector Edition", "Collector Book">>

\* the suffix loop of ProgramBookAnalyzer.extract_show_name from its k-th
\* iteration on
RECURSIVE SuffixLoop(_, _)
SuffixLoop(k, clean_title) ==
    IF k > Len(TitleSuffixes) THEN clean_title
    ELSE LET suffix == TitleSuffixes[k]
             idx == rfind(lower(clean_title), lower(suffix))
         IN IF idx # -1 /\ idx > Len(clean_title) - Len(suffix) - SuffixSlack
            THEN strip(SubSeq(clean_title, 1, idx))
            ELSE SuffixLoop(k + 1, clean_title)

\* ProgramBookAnalyzer.extract_show_name(title, sku)
book_extract_show_name(item_title, item_sku) ==
    LET title_lower == lower(item_title)
        sku_upper == upper(item_sku)
    IN IF IsHarryPotter(title_lower, sku_upper)
       THEN IF InFilmTable(SkuFilmMatch(sku_upper))
            THEN BookFilmNames[int(SkuFilmMatch(sku_upper).group)]
            ELSE IF InFilmTable(TitleFilmMatch(title_lower))
            THEN BookFilmNames[int(TitleFilmMatch(title_lower).group)]
            ELSE "Harry Potter (Unspecified)"
       ELSE IF Search(Cat(<<WordBoundary, Lit("polar"), Star(Space), Lit("express"),
                            WordBoundary>>), title_lower)
                \/ startswith(sku_upper, "POLAR") THEN "The Polar Express"
       ELSE IF Search(Cat(<<WordBoundary, Lit("elf"), WordBoundary>>), title_lower)
                \/ startswith(sku_upper, "ELF") THEN "Elf"
       ELSE IF SuffixLoop(1, item_title) # "" THEN SuffixLoop(1, item_title)
       ELSE "Unknown Show"

(***************************************************************************)
(* The classifiers applied to one line item.                               *)
(***************************************************************************)
\* the words product titles are made of
TitleWords == <<"Hoodie", "Tote", "Tee", "Harry Potter", "Film 3", "Film 12",
                "Program Book">>

RECURSIVE Join(_)
Join(words) ==
    IF words = <<>> THEN ""
    ELSE IF Len(words) = 1 THEN words[1]
    ELSE words[1] \o " " \o Join(Tail(words))

\* the titles of up to MaxTitleWords words
Titles ==
    {Join([i \in DOMAIN ws |-> TitleWords[ws[i]]]) :
        ws \in UNION {[1..n -> 1..Len(TitleWords)] : n \in 0..MaxTitleWords}}

Skus == {"", "HP3BOOK", "HP10BOOK", "HP0", "hp8", "HP", "XHP2", "ELF-1"}

CategorizeProduct ==
    /\ category = NoLabel
    /\ category' = categorize_product(title, sku)
    /\ UNCHANGED <<clientVars, refundVars, reportVars, salesVars, title, sku, show_name, book_show_name>>

ExtractShowName ==
    /\ show_name = NoLabel
    /\ show_name' = extract_show_name(title, sku)
    /\ UNCHANGED <<clientVars, refundVars, reportVars, salesVars, title, sku, category, book_show_name>>

BookExtractShowName ==
    /\ book_show_name = NoLabel
    /\ book_show_name' = book_extract_show_name(title, sku)
    /\ UNCHANGED <<clientVars, refundVars, reportVars, salesVars, title, sku, category, show_name>>

(***************************************************************************)
(* The normalizers: FullSalesAnalyzer.extract_all_sales and                *)
(* ProgramBookAnalyzer.extract_program_book_sales.  Money is counted in    *)
(* hundredths of the currency unit.                                        *)
(***************************************************************************)
\* float(price) of a price string with two decimals, in hundredths
ParsePrice(price) ==
    LET dot == Minimum(Occurrences(".", price))
    IN int(SubSeq(price, 1, dot - 1)) * 100 + int(SubSeq(price, dot + 1, Len(price)))

AllDigits(s) == \A i \in 1..Len(s) : IsDigit(CharAt(s, i))

\* datetime.fromisoformat(order_date.replace('Z', '+00:00')): the date of a
\* well-formed timestamp, ValueError for anything else
fromisoformat(order_date) ==
    IF /\ Len(order_date) >= 10
       /\ AllDigits(SubSeq(order_date, 1, 4)) /\ CharAt(order_date, 5) = "-"
       /\ AllDigits(SubSeq(order_date, 6, 7)) /\ CharAt(order_date, 8) = "-"
       /\ AllDigits(SubSeq(order_date, 9, 10))
    THEN [ok |-> TRUE, year |-> int(SubSeq(order_date, 1, 4)),
          month |-> int(SubSeq(order_date, 6, 7)), day |-> int(SubSeq(order_date, 9, 10))]
    ELSE [ok |-> FALSE, year |-> 0, month |-> 0, day |-> 0]

\* dt.strftime('%Y-%m')
MonthOf(dt) ==
    ToString(dt.year) \o "-" \o (IF dt.month < 10 THEN "0" ELSE "") \o ToString(dt.month)

\* the quarter counted from the month itself: March falls into Q2
QuarterOfMonthDividedByThree(dt) == ToString(dt.year) \o "-Q" \o ToString(dt.month \div 3 + 1)

\* f"{dt.year}-Q{(dt.month - 1) // 3 + 1}"
QuarterOf(dt) == ToString(dt.year) \o "-Q" \o ToString((dt.month - 1) \div 3 + 1)

\* str(dt.year)
YearOf(dt) == ToString(dt.year)

\* every refund line item counts, whatever line item it names
RefundMatchesAny(refund_item, item) == TRUE

\* refund_item.get('line_item_id') == item.get('id')
RefundMatches(refund_item, item) == refund_item.line_item_id = item.id

\* the inner refund loop: the matching quantities of one refund record
RECURSIVE RefundItemsQty(_, _)
RefundItemsQty(refund_line_items, item) ==
    IF refund_line_items = <<>> THEN 0
    ELSE (IF RefundMatches(Head(refund_line_items), item)
          THEN Head(refund_line_items).quantity ELSE 0)
         + RefundItemsQty(Tail(refund_line_items), item)

\* refunded_qty after the loop over order['refunds']
RECURSIVE RefundedQty(_, _)
RefundedQty(refunds, item) ==
    IF refunds = <<>> THEN 0
    ELSE RefundItemsQty(Head(refunds).refund_line_items, item)
         + RefundedQty(Tail(refunds), item)

\* net_quantity = quantity - refunded_qty
NetQuantity(order, item) == item.quantity - RefundedQty(order.refunds, item)

\* a row is kept down to a net quantity of 0
KeepsRowFromZero(net_quantity) == net_quantity >= 0

\* `if net_quantity <= 0: continue`
KeepsRow(net_quantity) == net_quantity > 0

\* price * net_quantity
LineTotal(price, net_quantity) == price * net_quantity

\* the labels of a row are those of the first line item of its order
LabelledFirstItem(order, item) == order.line_items[1]

\* the line item whose title and SKU the row's labels are computed from
LabelledItem(order, item) == item

\* the row FullSalesAnalyzer.extract_all_sales appends for a line item
FullSaleRow(order, item, net_quantity) ==
    LET dt == fromisoformat(order.created_at)
    IN [order_number |-> order.name,
        order_date |-> order.created_at,
        month |-> MonthOf(dt),
        quarter |-> QuarterOf(dt),
        year |-> YearOf(dt),
        product_title |-> item.title,
        sku |-> item.sku,
        category |-> categorize_product(LabelledItem(order, item).title,
                                        LabelledItem(order, item).sku),
        show_name |-> extract_show_name(LabelledItem(order, item).title,
                                        LabelledItem(order, item).sku),
        quantity |-> net_quantity,
        unit_price |-> ParsePrice(item.price),
        line_total |-> LineTotal(ParsePrice(item.price), net_quantity),
        currency |-> order.currency,
        country |-> order.shipping_address.country,
        sales_channel |-> order.source_name]

\* the three `continue` tests at the head of FullSalesAnalyzer's order loop
FullSkipsOrder(order) ==
    \/ order.cancelled_at # None
    \/ order.financial_status \in {"refunded", "voided"}
    \/ order.created_at = ""

\* the line item loop of extract_all_sales from its k-th item on
RECURSIVE FullItemLoop(_, _, _)
FullItemLoop(order, k, all_sales) ==
    IF k > Len(order.line_items) THEN all_sales
    ELSE LET item == order.line_items[k]
         IN IF ~KeepsRow(NetQuantity(order, item))
            THEN FullItemLoop(order, k + 1, all_sales)
            ELSE FullItemLoop(order, k + 1,
                     Append(all_sales, FullSaleRow(order, item, NetQuantity(order, item))))

\* the order loop of extract_all_sales from its k-th order on
RECURSIVE FullOrderLoop(_, _, _)
FullOrderLoop(os, k, all_sales) ==
    IF k > Len(os) THEN all_sales
    ELSE IF FullSkipsOrder(os[k]) THEN FullOrderLoop(os, k + 1, all_sales)
    ELSE FullOrderLoop(os, k + 1, FullItemLoop(os[k], 1, all_sales))

\* FullSalesAnalyzer.extract_all_sales(orders)
extract_all_sales(os) == FullOrderLoop(os, 1, <<>>)

BOOK_KEYWORDS == <<"program book", "programme book", "souvenir program",
                   "souvenir programme", "collector book", "commemorative book">>

BOOK_SKU_PATTERNS == <<"BOOK", "SOUV", "POLARBOOK">>

\* ProgramBookAnalyzer.is_program_book(line_item), for an item without a
\* variant title
is_program_book(line_item) ==
    LET item_title == lower(line_item.title)
        item_sku == upper(line_item.sku)
    IN \/ \E k \in DOMAIN BOOK_KEYWORDS : InString(BOOK_KEYWORDS[k], item_title)
       \/ \E k \in DOMAIN BOOK_SKU_PATTERNS : InString(BOOK_SKU_PATTERNS[k], item_sku)
       \/ /\ InString("book", item_title)
          /\ \/ InString("program", item_title)
             \/ InString("souvenir", item_title)
             \/ InString("collector", item_title)

\* the row ProgramBookAnalyzer.extract_program_book_sales appends
BookSaleRow(order, item, net_quantity) ==
    LET dt == fromisoformat(order.created_at)
    IN [order_number |-> order.name,
        order_date |-> order.created_at,
        month |-> MonthOf(dt),
        quarter |-> QuarterOf(dt),
        year |-> YearOf(dt),
        product_title |-> item.title,
        sku |-> item.sku,
        show_name |-> book_extract_show_name(LabelledItem(order, item).title,
                                             LabelledItem(order, item).sku),
        quantity |-> net_quantity,
        unit_price |-> ParsePrice(item.price),
        line_total |-> LineTotal(ParsePrice(item.price), net_quantity),
        currency |-> order.currency,
        country |-> order.shipping_address.country,
        sales_channel |-> order.source_name]

\* the two `continue` tests at the head of ProgramBookAnalyzer's order loop
BookSkipsOrder(order) ==
    \/ order.cancelled_at # None
    \/ order.financial_status \in {"refunded", "voided"}

\* the line item loop of extract_program_book_sales from its k-th item on:
\* the rows so far, and the exception that ended the loop
RECURSIVE BookItemLoop(_, _, _)
BookItemLoop(order, k, book_sales) ==
    IF k > Len(order.line_items) THEN [sales |-> book_sales, error |-> "none"]
    ELSE LET item == order.line_items[k]
         IN IF ~is_program_book(item) \/ ~KeepsRow(NetQuantity(order, item))
            THEN BookItemLoop(order, k + 1, book_sales)
            ELSE IF ~fromisoformat(order.created_at).ok
            THEN [sales |-> book_sales, error |-> "ValueError"]
            ELSE BookItemLoop(order, k + 1,
                     Append(book_sales, BookSaleRow(order, item, NetQuantity(order, item))))

\* the order loop of extract_program_book_sales from its k-th order on
RECURSIVE BookOrderLoop(_, _, _)
BookOrderLoop(os, k, book_sales) ==
    IF k > Len(os) THEN [sales |-> book_sales, error |-> "none"]
    ELSE IF BookSkipsOrder(os[k]) THEN BookOrderLoop(os, k + 1, book_sales)
    ELSE LET done == BookItemLoop(os[k], 1, book_sales)
         IN IF done.error # "none" THEN done
            ELSE BookOrderLoop(os, k + 1, done.sales)

\* ProgramBookAnalyzer.extract_program_book_sales(orders)
extract_program_book_sales(os) == BookOrderLoop(os, 1, <<>>)

(***************************************************************************)
(* The aggregators: generate_summary of both analyzers.                    *)
(***************************************************************************)
\* defaultdict(float)
EmptyDict == [c \in {} |-> 0]

\* the amount is added to the entry of every currency of the mapping
AddAmountToAll(revenue, currency, amount) ==
    [c \in DOMAIN revenue \cup {currency} |->
        (IF c \in DOMAIN revenue THEN revenue[c] ELSE 0) + amount]

\* revenue[currency] += amount
AddAmount(revenue, currency, amount) ==
    [c \in DOMAIN revenue \cup {currency} |->
        (IF c \in DOMAIN revenue THEN revenue[c] ELSE 0)
        + (IF c = currency THEN amount ELSE 0)]

\* the loop `revenue_by_currency[s['currency']] += s['line_total']`
RECURSIVE RevenueByCurrency(_, _, _)
RevenueByCurrency(rows, k, revenue) ==
    IF k > Len(rows) THEN revenue
    ELSE RevenueByCurrency(rows, k + 1,
             AddAmount(revenue, rows[k].currency, rows[k].line_total))

\* sum(s['quantity'] for s in sales)
RECURSIVE TotalUnits(_)
TotalUnits(rows) ==
    IF rows = <<>> THEN 0 ELSE Head(rows).quantity + TotalUnits(Tail(rows))

\* the currency the first row brought in
PrimaryCurrencyFirstSeen(rows, revenue) == rows[1].currency

\* max(revenue_by_currency.keys(), key=...): the first currency, in the
\* order in which the rows brought them in, of the greatest revenue
PrimaryCurrency(rows, revenue) ==
    LET best == {c \in DOMAIN revenue : \A d \in DOMAIN revenue : revenue[d] <= revenue[c]}
        first(c) == Minimum({i \in DOMAIN rows : rows[i].currency = c})
    IN CHOOSE c \in best : \A d \in best : first(c) <= first(d)

\* the dimensions of FullSalesAnalyzer.generate_summary: the name of the
\* summary entry, the entries of a new bucket
FullDimensions == <<
    [name |-> "by_category", new |-> [units |-> 0, revenue |-> EmptyDict, orders |-> {}]],
    [name |-> "by_show", new |-> [units |-> 0, revenue |-> EmptyDict, orders |-> {}]],
    [name |-> "by_product", new |-> [units |-> 0, revenue |-> EmptyDict, orders |-> {},
                                     sku |-> "", category |-> ""]],
    [name |-> "by_month", new |-> [units |-> 0, revenue |-> EmptyDict, orders |-> {}]],
    [name |-> "by_quarter", new |-> [units |-> 0, revenue |-> EmptyDict, orders |-> {}]],
    [name |-> "by_year", new |-> [units |-> 0, revenue |-> EmptyDict, orders |-> {}]],
    [name |-> "by_country", new |-> [units |-> 0, revenue |-> EmptyDict]],
    [name |-> "by_channel", new |-> [units |-> 0, revenue |-> EmptyDict]] >>

\* the dimensions of ProgramBookAnalyzer.generate_summary
BookDimensions == <<
    [name |-> "by_show",
     new |-> [units |-> 0, revenue_by_currency |-> EmptyDict, orders |-> {}]],
    [name |-> "by_month",
     new |-> [units |-> 0, revenue_by_currency |-> EmptyDict, orders |-> {}]],
    [name |-> "by_quarter",
     new |-> [units |-> 0, revenue_by_currency |-> EmptyDict, orders |-> {}]],
    [name |-> "by_year",
     new |-> [units |-> 0, revenue_by_currency |-> EmptyDict, orders |-> {}]],
    [name |-> "by_country", new |-> [units |-> 0, revenue_by_currency |-> EmptyDict]],
    [name |-> "by_channel", new |-> [units |-> 0, revenue_by_currency |-> EmptyDict]] >>

\* the key under which the loop over the rows files a row in a dimension
BucketKey(name, sale) ==
    CASE name = "by_category" -> sale.category
      [] name = "by_show" -> sale.show_name
      [] name = "by_product" -> sale.product_title
      [] name = "by_month" -> sale.month
      [] name = "by_quarter" -> sale.quarter
      [] name = "by_year" -> sale.year
      [] name = "by_country" -> (IF sale.country = "" THEN "Unknown" ELSE sale.country)
      [] OTHER -> (IF sale.sales_channel = "" THEN "web" ELSE sale.sales_channel)

\* the bucket counts the row as one unit
AddSaleAsOneUnit(name, bucket, sale) ==
    [f \in DOMAIN bucket |->
        CASE f = "units" -> bucket[f] + 1
          [] f \in {"revenue", "revenue_by_currency"} ->
                 AddAmount(bucket[f], sale.currency, sale.line_total)
          [] f = "orders" -> bucket[f] \cup {sale.order_number}
          [] f = "sku" -> sale.sku
          [] OTHER -> sale.category]

\* the updates the loop makes to the bucket of a row
AddSale(name, bucket, sale) ==
    [f \in DOMAIN bucket |->
        CASE f = "units" -> bucket[f] + sale.quantity
          [] f \in {"revenue", "revenue_by_currency"} ->
                 AddAmount(bucket[f], sale.currency, sale.line_total)
          [] f = "orders" -> bucket[f] \cup {sale.order_number}
          [] f = "sku" -> sale.sku
          [] OTHER -> sale.category]

\* one dimension after the loop over the rows from its k-th row on
RECURSIVE BucketLoop(_, _, _, _)
BucketLoop(dimension, rows, k, buckets) ==
    IF k > Len(rows) THEN buckets
    ELSE LET key == BucketKey(dimension.name, rows[k])
             bucket == IF key \in DOMAIN buckets THEN buckets[key] ELSE dimension.new
         IN BucketLoop(dimension, rows, k + 1,
                [x \in DOMAIN buckets \cup {key} |->
                    IF x = key THEN AddSale(dimension.name, bucket, rows[k])
                    ELSE buckets[x]])

\* "Convert sets to counts": orders = len(orders)
CountOrders(buckets) ==
    [x \in DOMAIN buckets |->
        [f \in DOMAIN buckets[x] |->
            IF f = "orders" THEN Cardinality(buckets[x][f]) ELSE buckets[x][f]]]

\* the finished buckets of one dimension
Buckets(dimension, rows) == CountOrders(BucketLoop(dimension, rows, 1, EmptyDict))

\* the entries of the summary that both analyzers compute
Totals(rows) ==
    [total_units |-> TotalUnits(rows),
     revenue_by_currency |-> RevenueByCurrency(rows, 1, EmptyDict),
     primary_currency |-> PrimaryCurrency(rows, RevenueByCurrency(rows, 1, EmptyDict)),
     total_orders |-> Cardinality({rows[i].order_number : i \in DOMAIN rows}),
     unique_products |-> Cardinality({rows[i].product_title : i \in DOMAIN rows})]

\* a summary of no rows that looks like any other: totals of zero
EmptySummaryOfZeroes(message) ==
    [totals |-> [total_units |-> 0, revenue_by_currency |-> EmptyDict,
                 total_orders |-> 0, unique_products |-> 0]]

\* `if not sales: return {'error': ...}`
EmptySummary(message) == [error |-> message]

\* FullSalesAnalyzer.generate_summary(sales), without date_range
generate_summary(rows) ==
    IF rows = <<>> THEN EmptySummary("No sales found")
    ELSE [totals |-> Totals(rows),
          unique_skus |-> Cardinality({rows[i].sku : i \in DOMAIN rows} \ {""}),
          by_category |-> Buckets(FullDimensions[1], rows),
          by_show |-> Buckets(FullDimensions[2], rows),
          by_product |-> Buckets(FullDimensions[3], rows),
          by_month |-> Buckets(FullDimensions[4], rows),
          by_quarter |-> Buckets(FullDimensions[5], rows),
          by_year |-> Buckets(FullDimensions[6], rows),
          by_country |-> Buckets(FullDimensions[7], rows),
          by_channel |-> Buckets(FullDimensions[8], rows)]

\* ProgramBookAnalyzer.generate_summary(book_sales), without date_range and
\* the averages
book_generate_summary(rows) ==
    IF rows = <<>> THEN EmptySummary("No program book sales found")
    ELSE [totals |-> Totals(rows),
          has_multiple_currencies |->
              Cardinality(DOMAIN RevenueByCurrency(rows, 1, EmptyDict)) > 1,
          by_show |-> Buckets(BookDimensions[1], rows),
          by_month |-> Buckets(BookDimensions[2], rows),
          by_quarter |-> Buckets(BookDimensions[3], rows),
          by_year |-> Buckets(BookDimensions[4], rows),
          by_country |-> Buckets(BookDimensions[5], rows),
          by_channel |-> Buckets(BookDimensions[6], rows)]

(***************************************************************************)
(* The orders an analysis is given, and its steps.                         *)
(***************************************************************************)
Book(id, quantity) ==
    [id |-> id, title |-> "Elf - Program Book", sku |-> "ELFBOOK",
     quantity |-> quantity, price |-> "10.00"]

Hoodie(id, quantity) ==
    [id |-> id, title |-> "Harry Potter Hoodie", sku |-> "hp3-hood",
     quantity |-> quantity, price |-> "8.00"]

Refund(items) == [refund_line_items |-> items]

RefundItem(id, quantity) == [line_item_id |-> id, quantity |-> quantity]

\* line items and refunds of an order: an item refunded twice, an item
\* refunded in full beside an untouched one, a refund of an item of another
\* order, an item refunded beyond its quantity, and an order without refunds
Baskets == {
    [line_items |-> <<Book(11, 5)>>,
     refunds |-> <<Refund(<<RefundItem(11, 2)>>), Refund(<<RefundItem(11, 1)>>)>>],
    [line_items |-> <<Book(11, 3), Hoodie(12, 2)>>,
     refunds |-> <<Refund(<<RefundItem(12, 2)>>)>>],
    [line_items |-> <<Hoodie(11, 2)>>,
     refunds |-> <<Refund(<<RefundItem(77, 1)>>)>>],
    [line_items |-> <<Book(11, 1), Book(12, 2)>>,
     refunds |-> <<Refund(<<RefundItem(11, 1), RefundItem(11, 1)>>)>>],
    [line_items |-> <<Hoodie(11, 1), Book(12, 1)>>,
     refunds |-> <<>>] }

\* currency, shipping country, channel and creation time of an order
Shops == {
    [currency |-> "USD", shipping_address |-> [country |-> "United States"],
     source_name |-> "web", created_at |-> "2024-03-15T10:00:00Z"],
    [currency |-> "EUR", shipping_address |-> [country |-> ""],
     source_name |-> "pos", created_at |-> "2024-11-02T09:30:00+01:00"] }

\* an order a normalizer keeps
PaidOrder(shop, basket) ==
    [name |-> "", created_at |-> shop.created_at, cancelled_at |-> None,
     financial_status |-> "paid", currency |-> shop.currency,
     shipping_address |-> shop.shipping_address, source_name |-> shop.source_name,
     line_items |-> basket.line_items, refunds |-> basket.refunds]

\* the orders the specification says are dropped
DroppedOrders ==
    LET paid == PaidOrder(CHOOSE shop \in Shops : shop.currency = "USD",
                          CHOOSE basket \in Baskets : Len(basket.refunds) = 2)
    IN {[paid EXCEPT !.cancelled_at = "2024-03-16T08:00:00Z"],
        [paid EXCEPT !.financial_status = "refunded"],
        [paid EXCEPT !.financial_status = "voided"],
        [paid EXCEPT !.created_at = ""]}

\* a paid order of four program books of the third Harry Potter film
OrderA ==
    [name |-> "", created_at |-> "2024-03-15T00:00:00Z", cancelled_at |-> None,
     financial_status |-> "paid", currency |-> "USD",
     shipping_address |-> [country |-> "United States"], source_name |-> "web",
     line_items |-> <<[id |-> 11, title |-> "Harry Potter 3 Program Book",
                       sku |-> "HP3USABOOK", quantity |-> 4, price |-> "12.00"]>>,
     refunds |-> <<>>]

OrderChoices ==
    {PaidOrder(shop, basket) : shop \in Shops, basket \in Baskets}
        \cup DroppedOrders \cup {OrderA}

\* the lists of up to MaxOrders orders, the k-th order being named #100k
OrderLists ==
    {[k \in DOMAIN os |-> [os[k] EXCEPT !.name = "#100" \o ToString(k)]] :
        os \in UNION {[1..n -> OrderChoices] : n \in 0..MaxOrders}}

ExtractAllSales ==
    /\ stage = "orders"
    /\ analyzer' = "FullSalesAnalyzer"
    /\ sales' = extract_all_sales(order_list)
    /\ stage' = "sales"
    /\ UNCHANGED <<clientVars, refundVars, reportVars, classifyVars, order_list, error, summary>>

ExtractProgramBookSales ==
    /\ stage = "orders"
    /\ analyzer' = "ProgramBookAnalyzer"
    /\ LET done == extract_program_book_sales(order_list)
       IN /\ error' = done.error
          /\ sales' = IF done.error = "none" THEN done.sales ELSE <<>>
    /\ stage' = "sales"
    /\ UNCHANGED <<clientVars, refundVars, reportVars, classifyVars, order_list, summary>>

GenerateSummary ==
    /\ stage = "sales"
    /\ analyzer = "FullSalesAnalyzer"
    /\ summary' = generate_summary(sales)
    /\ stage' = "summary"
    /\ UNCHANGED <<clientVars, refundVars, reportVars, classifyVars, analyzer, order_list, sales, error>>

BookGenerateSummary ==
    /\ stage = "sales"
    /\ analyzer = "ProgramBookAnalyzer"
    /\ error = "none"
    /\ summary' = book_generate_summary(sales)
    /\ stage' = "summary"
    /\ UNCHANGED <<clientVars, refundVars, reportVars, classifyVars, analyzer, order_list, sales, error>>

(***************************************************************************)
(* The reports of FullSalesAnalyzer: print_report, export_by_category_csv. *)
(* A line or row is the record of what it shows: its section, the value    *)
(* it is about, units, revenue by currency (_fmt_rev writes every currency *)
(* of it) and the share as it is written, "" where the line has none.      *)
(***************************************************************************)
\* rev.get(primary, 0)
get_primary_rev(rev, primary) == IF primary \in DOMAIN rev THEN rev[primary] ELSE 0

\* the elements of S in the order in which Before puts them
Sorted(S, Before(_, _)) ==
    [p \in 1..Cardinality(S) |->
        CHOOSE a \in S : Cardinality({b \in S : Before(b, a)}) + 1 = p]

\* sorted(summary[name].items(), key=primary revenue, reverse=True): the keys
\* by falling revenue in the primary currency; the sort is stable, so keys of
\* equal revenue stay in the order of the dict, which is the order in which
\* the rows brought them in
SortedByPrimaryRev(name, buckets, primary, rows) ==
    LET first(key) == Minimum({i \in DOMAIN rows : BucketKey(name, rows[i]) = key})
        rev(key) == get_primary_rev(buckets[key].revenue, primary)
        Before(a, b) == rev(a) > rev(b) \/ (rev(a) = rev(b) /\ first(a) < first(b))
    IN Sorted(DOMAIN buckets, Before)

\* seq[:n]
Take(seq, n) == SubSeq(seq, 1, Min(n, Len(seq)))

\* pct = (part / primary_total * 100) if primary_total > 0 else 0, written
\* with f"{pct:.1f}%": rounded to the nearest tenth, a tie to the even one
PercentText(part, primary_total) ==
    LET q == (part * 1000) \div primary_total
        r == (part * 1000) % primary_total
        tenths == IF primary_total > 0
                  THEN (IF 2 * r > primary_total \/ (2 * r = primary_total /\ q % 2 = 1)
                        THEN q + 1 ELSE q)
                  ELSE 0
    IN ToString(tenths \div 10) \o "." \o ToString(tenths % 10) \o "%"

\* the lines of one section of a report, one for each key
SectionLines(section, keys, buckets, Share(_)) ==
    [p \in DOMAIN keys |->
        [section |-> section, value |-> keys[p], units |-> buckets[keys[p]].units,
         revenue |-> buckets[keys[p]].revenue, share |-> Share(keys[p])]]

\* FullSalesAnalyzer.print_report(summary); rows gives the order of the keys
\* of the dicts of the summary
print_report(s, rows) ==
    LET primary == s.totals.primary_currency
        primary_total == get_primary_rev(s.totals.revenue_by_currency, primary)
        Ranked(name) == SortedByPrimaryRev(name, s[name], primary, rows)
        Share(name, key) ==
            PercentText(get_primary_rev(s[name][key].revenue, primary), primary_total)
        CategoryShare(key) == Share("by_category", key)
        ShowShare(key) == Share("by_show", key)
        CountryShare(key) == Share("by_country", key)
        ChannelShare(key) == Share("by_channel", key)
        NoShare(key) == ""
        YearBefore(a, b) == int(a) < int(b)
        QuarterNo(q) == 10 * int(SubSeq(q, 1, 4)) + int(SubSeq(q, 7, 7))
        QuarterAfter(a, b) == QuarterNo(a) > QuarterNo(b)
        QuarterBefore(a, b) == QuarterNo(a) < QuarterNo(b)
        quarters_sorted == Take(Sorted(DOMAIN s.by_quarter, QuarterAfter), LastQuarters)
        quarters == {quarters_sorted[i] : i \in DOMAIN quarters_sorted}
        products == Take(Ranked("by_product"), TopProducts)
        Shortened(prod) ==
            IF Len(prod) > TitleWidth THEN SubSeq(prod, 1, TitleWidth) \o "..." ELSE prod
    IN <<[section |-> "OVERALL METRICS", value |-> "", units |-> s.totals.total_units,
          revenue |-> s.totals.revenue_by_currency, share |-> ""]>>
       \o SectionLines("SALES BY CATEGORY", Ranked("by_category"), s.by_category,
                       CategoryShare)
       \o SectionLines("TOP 10 SHOWS/FRANCHISES", Take(Ranked("by_show"), TopShows),
                       s.by_show, ShowShare)
       \o SectionLines("SALES BY YEAR", Sorted(DOMAIN s.by_year, YearBefore),
                       s.by_year, NoShare)
       \o SectionLines("SALES BY QUARTER (Last 8)", Sorted(quarters, QuarterBefore),
                       s.by_quarter, NoShare)
       \o SectionLines("TOP 10 COUNTRIES", Take(Ranked("by_country"), TopCountries),
                       s.by_country, CountryShare)
       \o SectionLines("SALES CHANNELS", Ranked("by_channel"), s.by_channel,
                       ChannelShare)
       \o [p \in DOMAIN products |->
              [section |-> "TOP 15 PRODUCTS BY REVENUE", value |-> Shortened(products[p]),
               units |-> s.by_product[products[p]].units,
               revenue |-> s.by_product[products[p]].revenue, share |-> ""]]

\* FullSalesAnalyzer.export_by_category_csv(summary, filename), without the
\* heading rows
export_by_category_csv(s, rows) ==
    LET primary == s.totals.primary_currency
        primary_total == get_primary_rev(s.totals.revenue_by_currency, primary)
        Ranked(name) == SortedByPrimaryRev(name, s[name], primary, rows)
        Share(name, key) ==
            PercentText(get_primary_rev(s[name][key].revenue, primary), primary_total)
        CategoryShare(key) == Share("by_category", key)
        ShowShare(key) == Share("by_show", key)
        CountryShare(key) == Share("by_country", key)
        ChannelShare(key) == Share("by_channel", key)
    IN SectionLines("SALES BY CATEGORY", Ranked("by_category"), s.by_category,
                    CategoryShare)
       \o <<[section |-> "TOTALS", value |-> "", units |-> s.totals.total_units,
             revenue |-> s.totals.revenue_by_currency, share |-> "100%"]>>
       \o SectionLines("SALES BY SHOW/FRANCHISE", Ranked("by_show"), s.by_show,
                       ShowShare)
       \o SectionLines("SALES BY COUNTRY", Ranked("by_country"), s.by_country,
                       CountryShare)
       \o SectionLines("SALES BY CHANNEL", Ranked("by_channel"), s.by_channel,
                       ChannelShare)

\* the rows a report is made of: row k is one unit of product k of show k,
\* sold to country k; the first rows are in USD and at 10.00, the others in
\* EUR and at 8.00
ReportRows ==
    {[k \in 1..n |->
        [order_number |-> "#" \o ToString(1000 + (k + 1) \div 2),
         order_date |-> "2024-03-15T10:00:00Z",
         month |-> "2024-03", quarter |-> "2024-Q1", year |-> "2024",
         product_title |-> "Program Book " \o ToString(k),
         sku |-> "BOOK" \o ToString(k),
         category |-> IF k % 3 = 0 THEN "Apparel" ELSE "Program Books",
         show_name |-> "Show " \o ToString(k),
         quantity |-> 1,
         unit_price |-> IF k <= m THEN 1000 ELSE 800,
         line_total |-> IF k <= m THEN 1000 ELSE 800,
         currency |-> IF k <= m THEN "USD" ELSE "EUR",
         country |-> "Country " \o ToString(k),
         sales_channel |-> IF k % 2 = 0 THEN "pos" ELSE "web"]] :
     n \in 0..MaxShows, m \in 0..MaxShows}

\* main: analyzer.print_report(summary)
PrintReport ==
    /\ stage = "summary"
    /\ analyzer = "FullSalesAnalyzer"
    /\ "error" \notin DOMAIN summary
    /\ printed' = print_report(summary, sales)
    /\ stage' = "printed"
    /\ UNCHANGED <<clientVars, refundVars, classifyVars, analyzer, order_list, sales, error,
                   summary, category_csv>>

\* main: analyzer.export_by_category_csv(summary, ...)
ExportByCategoryCsv ==
    /\ stage = "printed"
    /\ category_csv' = export_by_category_csv(summary, sales)
    /\ stage' = "exported"
    /\ UNCHANGED <<clientVars, refundVars, classifyVars, analyzer, order_list, sales, error,
                   summary, printed>>

(***************************************************************************)
(* The refund batch of shopify_batch_refund.py.  A value a lookup returns  *)
(* is a record whose field "is" tells what it is; amounts are in           *)
(* hundredths.                                                             *)
(***************************************************************************)
NoneResult == [is |-> "None"]
Raised == [is |-> "raised"]
NotAsked == [is |-> "not asked"]

\* the order names read_orders_from_csv returned, for a CSV of n rows
OrderNames(n) == [k \in 1..n |-> "#" \o ToString(1000 + k)]

RefundBatches == {OrderNames(n) : n \in 1..MaxRefundOrders}

\* --amount: not given, or 5.00
RefundAmounts == {None, "5.00"}

\* --delay
RefundDelays == {DefaultDelay, 1}

FinancialStatuses == {"paid", "refunded"}

\* the order the shop holds under the k-th name
ShopOrder(k, financial_status) ==
    [is |-> "order", id |-> 1000 + k, financial_status |-> financial_status,
     total_price |-> "10.00"]

Transaction(id, kind, status) ==
    [is |-> "transaction", id |-> id, kind |-> kind, status |-> status,
     gateway |-> "shopify_payments"]

\* answers of the shop to GET orders.json?name=...: no response, an error
\* status, a body that is not JSON, or a list of orders
OrderAnswers(k) ==
    {[status |-> st, json |-> TRUE, orders |-> <<>>] : st \in {0, 500}}
    \cup {[status |-> 200, json |-> FALSE, orders |-> <<>>]}
    \cup {[status |-> 200, json |-> TRUE, orders |-> os] :
            os \in {<<>>} \cup {<<ShopOrder(k, fs)>> : fs \in FinancialStatuses}}

TransactionLists ==
    { <<>>,
      <<Transaction(1, "authorization", "success"), Transaction(2, "sale", "failure")>>,
      <<Transaction(1, "authorization", "success"), Transaction(2, "capture", "success")>>,
      <<Transaction(1, "sale", "success")>> }

\* answers of the shop to GET orders/{id}/transactions.json
TransactionAnswers ==
    {[status |-> st, json |-> TRUE, transactions |-> <<>>] : st \in {0, 500}}
    \cup {[status |-> 200, json |-> FALSE, transactions |-> <<>>]}
    \cup {[status |-> 200, json |-> TRUE, transactions |-> ts] : ts \in TransactionLists}

\* statuses of the answers to POST orders/{id}/refunds.json
PostStatuses == {0, 201, 422}

\* the requests of the batch, as they are kept in the event log
GetOrder(k) == [kind |-> "GET orders.json", order |-> k]
GetTransactions(k) == [kind |-> "GET transactions.json", order |-> k]
PostRefund(k, parent_id, refund_amount) ==
    [kind |-> "POST refunds.json", order |-> k, parent_id |-> parent_id,
     amount |-> refund_amount]
Sleep(seconds) == [kind |-> "time.sleep", seconds |-> seconds]

\* get_order_by_name: orders[0] if orders else None; None after a
\* RequestException.  The error of a body that is not JSON is a
\* RequestException in some versions of the requests library (caught) and
\* not in others.
get_order_by_name(answer, caught) ==
    IF answer.status = 0 \/ RaisesForStatus(answer.status) THEN NoneResult
    ELSE IF ~answer.json THEN (IF caught THEN NoneResult ELSE Raised)
    ELSE IF answer.orders = <<>> THEN NoneResult
    ELSE answer.orders[1]

\* a capture or sale of any status counts as the payment
IsPaymentOfAnyStatus(trans) == trans.kind \in {"capture", "sale"}

\* trans['kind'] in ['capture', 'sale'] and trans['status'] == 'success'
IsPayment(trans) == trans.kind \in {"capture", "sale"} /\ trans.status = "success"

\* get_payment_transaction: the first payment of the list, else None
get_payment_transaction(answer, caught) ==
    IF answer.status = 0 \/ RaisesForStatus(answer.status) THEN NoneResult
    ELSE IF ~answer.json THEN (IF caught THEN NoneResult ELSE Raised)
    ELSE LET transactions == answer.transactions
             hits == {j \in DOMAIN transactions : IsPayment(transactions[j])}
         IN IF hits = {} THEN NoneResult
            ELSE transactions[CHOOSE j \in hits : \A h \in hits : j <= h]

\* what a call did: whether it raised, the value it returned, the requests
\* it sent, and what its transaction lookup gave
Outcome(raised, result, requests, payment_trans) ==
    [raised |-> raised, result |-> result, requests |-> requests,
     payment_trans |-> payment_trans]

\* create_refund(order, amount, ..., dry_run)
create_refund(k, order, amt, dry, trans_answer, trans_caught, post_status) ==
    LET total_price == ParsePrice(order.total_price)
        refund_amount == IF amt # None THEN ParsePrice(amt) ELSE total_price
        payment_trans == get_payment_transaction(trans_answer, trans_caught)
    IN IF dry THEN Outcome(FALSE, TRUE, <<>>, NotAsked)
       ELSE IF payment_trans = Raised
       THEN Outcome(TRUE, FALSE, <<GetTransactions(k)>>, Raised)
       ELSE IF payment_trans = NoneResult
       THEN Outcome(FALSE, FALSE, <<GetTransactions(k)>>, NoneResult)
       ELSE Outcome(FALSE, ~(post_status = 0 \/ RaisesForStatus(post_status)),
                    <<GetTransactions(k), PostRefund(k, payment_trans.id, refund_amount)>>,
                    payment_trans)

\* if financial_status == 'refunded' and amount is None: return False
AlreadyRefunded(order, amt) == order.financial_status = "refunded" /\ amt = None

\* process_refund(order_name, amount, ..., dry_run) for the k-th order name
process_refund(k, amt, dry, order_answer, order_caught, trans_answer, trans_caught, post_status) ==
    LET order == get_order_by_name(order_answer, order_caught)
        created == create_refund(k, order, amt, dry, trans_answer, trans_caught,
                                 post_status)
    IN IF order = Raised
       THEN [order |-> order] @@ Outcome(TRUE, FALSE, <<GetOrder(k)>>, NotAsked)
       ELSE IF order = NoneResult \/ AlreadyRefunded(order, amt)
       THEN [order |-> order] @@ Outcome(FALSE, FALSE, <<GetOrder(k)>>, NotAsked)
       ELSE [order |-> order]
            @@ Outcome(created.raised, created.result, <<GetOrder(k)>> \o created.requests,
                       created.payment_trans)

\* main before the loop: without --yes and --dry-run the user is asked
ConfirmBatch ==
    /\ refund_pc = "confirm"
    /\ \E confirmed \in BOOLEAN :
        /\ dry_run => confirmed
        /\ IF confirmed
           THEN /\ refund_pc' = "process"
                /\ order_index' = 1
           ELSE /\ refund_pc' = "cancelled"
                /\ UNCHANGED order_index
    /\ UNCHANGED <<refund_orders, dry_run, args_amount, delay, events, lookups,
                   successful, failed>>
    /\ UNCHANGED <<clientVars, classifyVars, salesVars, reportVars>>

\* the loop body of main up to the tally: processor.process_refund(...)
ProcessRefund ==
    /\ refund_pc = "process"
    /\ \E order_answer \in OrderAnswers(order_index), order_caught \in BOOLEAN,
          trans_answer \in TransactionAnswers, trans_caught \in BOOLEAN,
          post_status \in PostStatuses :
        LET call == process_refund(order_index, args_amount, dry_run, order_answer,
                                   order_caught, trans_answer, trans_caught, post_status)
        IN
        /\ events' = events \o call.requests
        /\ lookups' = Append(lookups, [order |-> call.order,
                                       payment_trans |-> call.payment_trans])
        /\ IF call.raised
           THEN /\ refund_pc' = "crashed"
                /\ UNCHANGED <<successful, failed>>
           ELSE /\ refund_pc' = "rate limit"
                /\ successful' = successful + (IF call.result THEN 1 ELSE 0)
                /\ failed' = failed + (IF call.result THEN 0 ELSE 1)
    /\ UNCHANGED <<refund_orders, dry_run, args_amount, delay, order_index>>
    /\ UNCHANGED <<clientVars, classifyVars, salesVars, reportVars>>

\* the sleep follows every order of a live batch, the last one too
WaitsAfterEveryOrder(i, orders, dry) == ~dry

\* if i < len(orders) and not args.dry_run
WaitsAfter(i, orders, dry) == i < Len(orders) /\ ~dry

\* the end of the loop body: the rate-limit sleep, then the next order or
\* the end of the loop
RateLimit ==
    /\ refund_pc = "rate limit"
    /\ IF WaitsAfter(order_index, refund_orders, dry_run)
       THEN events' = Append(events, Sleep(delay))
       ELSE UNCHANGED events
    /\ IF order_index < Len(refund_orders)
       THEN /\ order_index' = order_index + 1
            /\ refund_pc' = "process"
       ELSE /\ refund_pc' = "done"
            /\ UNCHANGED order_index
    /\ UNCHANGED <<refund_orders, dry_run, args_amount, delay, lookups, successful, failed>>
    /\ UNCHANGED <<clientVars, classifyVars, salesVars, reportVars>>

(***************************************************************************)
(* The whole system.                                                       *)
(***************************************************************************)
\* no client operation is running
ClientInit ==
    /\ op = "idle"
    /\ pc = "idle"
    /\ method = "GET"
    /\ retry_count = DefaultRetryCount
    /\ attempt = 0
    /\ resps = <<>>
    /\ lastResp = NoResponse
    /\ sleeps = <<>>
    /\ httpCount = 0
    /\ outcome = "none"
    /\ remote = <<>>
    /\ pageLens = <<>>
    /\ page = 1
    /\ offset = 0
    /\ response = NoBody
    /\ acc = <<>>
    /\ retval = NoValue
    /\ delays = 0
    /\ url = <<>>
    /\ params = {}
    /\ lastReq = [url |-> <<>>, params |-> {}]
    /\ lastLink = NoLink
    /\ failedPage = 0
    /\ console = <<>>
    /\ built = FALSE
    /\ ended = FALSE

\* no line item is being classified
ClassifyIdle ==
    /\ title = ""
    /\ sku = ""
    /\ category = NoLabel
    /\ show_name = NoLabel
    /\ book_show_name = NoLabel

\* no analysis is running
SalesIdle ==
    /\ analyzer = "none"
    /\ order_list = <<>>
    /\ sales = <<>>
    /\ error = "none"
    /\ summary = NoSummary
    /\ stage = "idle"
    /\ printed = <<>>
    /\ category_csv = <<>>

\* no refund batch is running
RefundIdle ==
    /\ refund_orders = <<>>
    /\ dry_run = FALSE
    /\ args_amount = None
    /\ delay = DefaultDelay
    /\ order_index = 0
    /\ refund_pc = "idle"
    /\ events = <<>>
    /\ lookups = <<>>
    /\ successful = 0
    /\ failed = 0

Init ==
    /\ ClientInit
    /\ ClassifyIdle
    /\ SalesIdle
    /\ RefundIdle

\* the operation is over; the script goes on to its next operation
Finish ==
    /\ pc = "done"
    /\ op' = "idle"
    /\ pc' = "idle"
    /\ method' = "GET"
    /\ retry_count' = DefaultRetryCount
    /\ attempt' = 0
    /\ resps' = <<>>
    /\ lastResp' = NoResponse
    /\ sleeps' = <<>>
    /\ httpCount' = 0
    /\ outcome' = "none"
    /\ remote' = <<>>
    /\ pageLens' = <<>>
    /\ page' = 1
    /\ offset' = 0
    /\ response' = NoBody
    /\ acc' = <<>>
    /\ retval' = NoValue
    /\ delays' = 0
    /\ url' = <<>>
    /\ params' = {}
    /\ lastReq' = [url |-> <<>>, params |-> {}]
    /\ lastLink' = NoLink
    /\ failedPage' = 0
    /\ console' = <<>>
    /\ built' = FALSE
    /\ ended' = FALSE
    /\ UNCHANGED analysisVars

Next ==
    \/ StartSingle
    \/ SingleRequest
    \/ StartFetchAll
    \/ PageRequest
    \/ ProcessPage
    \/ StartCursor
    \/ FetchPage
    \/ MonthlyFetchPage
    \/ FetcherFetchPage
    \/ FullSalesMain
    \/ ProgramBookMain
    \/ OrderFetcherMain
    \/ MonthlyVolumeReport
    \/ Finish

Spec == Init /\ [][Next]_vars

\* one line item, drawn from the bounded titles and SKUs, is classified
ClassifyInit ==
    /\ ClientInit
    /\ title \in Titles
    /\ sku \in Skus
    /\ category = NoLabel
    /\ show_name = NoLabel
    /\ book_show_name = NoLabel
    /\ SalesIdle
    /\ RefundIdle

ClassifyNext ==
    \/ CategorizeProduct
    \/ ExtractShowName
    \/ BookExtractShowName

ClassifySpec == ClassifyInit /\ [][ClassifyNext]_vars

\* a list of orders, drawn from the bounded order lists, is analysed
SalesInit ==
    /\ ClientInit
    /\ ClassifyIdle
    /\ analyzer = "none"
    /\ order_list \in OrderLists
    /\ sales = <<>>
    /\ error = "none"
    /\ summary = NoSummary
    /\ stage = "orders"
    /\ printed = <<>>
    /\ category_csv = <<>>
    /\ RefundIdle

SalesNext ==
    \/ ExtractAllSales
    \/ ExtractProgramBookSales
    \/ GenerateSummary
    \/ BookGenerateSummary

SalesSpec == SalesInit /\ [][SalesNext]_vars

\* the rows of an analysis are summarised and reported
ReportInit ==
    /\ ClientInit
    /\ ClassifyIdle
    /\ analyzer = "FullSalesAnalyzer"
    /\ order_list = <<>>
    /\ sales \in ReportRows
    /\ error = "none"
    /\ summary = NoSummary
    /\ stage = "sales"
    /\ printed = <<>>
    /\ category_csv = <<>>
    /\ RefundIdle

ReportNext ==
    \/ GenerateSummary
    \/ PrintReport
    \/ ExportByCategoryCsv

ReportSpec == ReportInit /\ [][ReportNext]_vars

\* a refund batch read from a CSV of up to MaxRefundOrders rows is about to
\* be confirmed
RefundInit ==
    /\ ClientInit
    /\ ClassifyIdle
    /\ SalesIdle
    /\ refund_orders \in RefundBatches
    /\ dry_run \in BOOLEAN
    /\ args_amount \in RefundAmounts
    /\ delay \in RefundDelays
    /\ order_index = 0
    /\ refund_pc = "confirm"
    /\ events = <<>>
    /\ lookups = <<>>
    /\ successful = 0
    /\ failed = 0

RefundNext ==
    \/ ConfirmBatch
    \/ ProcessRefund
    \/ RateLimit

RefundSpec == RefundInit /\ [][RefundNext]_vars

(***************************************************************************)
(* Properties of the request engine.                                       *)
(***************************************************************************)
RequestOps == SingleOps \cup OffsetOps

\* the current _request call has received at least one response, all of them 429
OnlyRateLimited == resps # <<>> /\ \A i \in 1..Len(resps) : resps[i] = 429

\* every response the current _request call received was a non-429 failure
AllAttemptsFailed == \A i \in 1..Len(resps) : resps[i] = 0 \/ resps[i] = 500

\* C1: an HTTP 429 never consumes a retry slot, so a call that has received
\* nothing but 429 responses (each with a usable Retry-After) has not failed:
\* it is still waiting for the successful response, however many 429s came.
C1_RateLimitKeepsRetrySlot ==
    (op \in RequestOps /\ OnlyRateLimited /\ Len(sleeps) = Len(resps))
        => outcome # "ApiError"

\* C2: a mutating operation sends at most one HTTP request per invocation,
\* also when that request fails.
C2_MutatingSingleCall ==
    op \in MutatingOps => httpCount <= 1

(***************************************************************************)
(* Properties of the fetch-all loops.                                      *)
(***************************************************************************)
FetchAllOps == OffsetOps \cup CursorOps

\* the operation is over and handed a value to its caller
Returned == pc = "done" /\ outcome = "returned"

\* C3: a fetch-all loop whose page fetches all succeed ends with exactly the
\* records of the server's pages, in server order, none twice and none
\* missing; while it runs, what it has accumulated is a prefix of them and
\* it never asks for more pages than the server has (so it terminates).
C3_FetchAllConcatenatesPages ==
    op \in FetchAllOps =>
        /\ acc = SubSeq(remote, 1, Len(acc))
        /\ (Returned /\ failedPage = 0) => retval.records = remote
        /\ op \in PrintfulFetchAll =>
               offset <= Len(remote) /\ offset % PrintfulLimit = 0
        /\ op \notin PrintfulFetchAll =>
               page <= (IF pageLens = <<>> THEN 1 ELSE Len(pageLens))

\* a fetch-all loop returned what three pages held
C3_Witness ==
    /\ op \in FetchAllOps
    /\ Returned
    /\ failedPage = 0
    /\ retval.records = remote
    /\ \/ Len(pageLens) = 3
       \/ (op \in PrintfulFetchAll /\ Len(remote) > 2 * PrintfulLimit)

\* the page fetch the analyzer loop made last ended in a network or API error
LastFetchFailed == lastResp.status = 0 \/ RaisesForStatus(lastResp.status)

\* the page fetch the analyzer loop made last delivered a page
LastFetchServed == lastResp.status = 200 /\ lastResp.json

\* C4: in the analyzers' cursor-link loops a network or API error on page k
\* ends the loop at once: k requests were sent in all, and the call returns
\* (records of pages 1..k-1, False); a call that returns reports success
\* exactly when its last (hence every) page fetch was served.
C4_CursorErrorReturnsPartial ==
    (op \in AnalyzerOps /\ pc = "done") =>
        /\ LastFetchFailed =>
               /\ Returned
               /\ retval = PairValue(PagesBefore(page), FALSE)
               /\ httpCount = page
        /\ Returned => (retval.kind = "pair" /\ retval.success = LastFetchServed)

\* the third page of an analyzer's fetch failed
C4_Witness ==
    /\ op \in AnalyzerOps
    /\ pc = "done"
    /\ LastFetchFailed
    /\ page = 3
    /\ retval = PairValue(PagesBefore(3), FALSE)
    /\ Len(retval.records) >= 2

\* C5: when the request for page k > 1 of an offset/page-number loop ends in
\* an API error, the caller receives the records of pages 1..k-1 together
\* with a success = false flag instead of an exception.
C5_OffsetErrorReturnsPartial ==
    (op \in OffsetOps /\ pc = "done" /\ failedPage > 1
        /\ resps # <<>> /\ resps[Len(resps)] \in {0, 500}) =>
        /\ outcome = "returned"
        /\ retval = PairValue(acc, FALSE)

(***************************************************************************)
(* Retry budget, backoff schedule and rate-limit waits of _request.        *)
(***************************************************************************)
\* C6: while every attempt of a _request call fails with a non-429 HTTP
\* error or a network failure, the call sends at most retry_count requests,
\* goes on as long as it has sent fewer, and fails with ApiError exactly
\* when it has sent retry_count of them.
C6_AlwaysFailingUsesAllAttempts ==
    (op \in RequestOps /\ AllAttemptsFailed) =>
        /\ Len(resps) <= retry_count
        /\ Len(resps) < retry_count => (pc = "request" /\ outcome = "none")
        /\ Len(resps) = retry_count => (pc = "done" /\ outcome = "ApiError")

\* three failed attempts, network failures and HTTP errors mixed, then ApiError
C6_Witness ==
    /\ op \in RequestOps
    /\ retry_count = 3
    /\ resps = <<500, 0, 500>>
    /\ outcome = "ApiError"

\* a step in which _request sends a request and handles the answer
RequestStep == op \in RequestOps /\ pc = "request" /\ httpCount' = httpCount + 1

\* C7: a non-429 HTTP error or a network failure on attempt k (0-indexed)
\* is followed by a sleep of 2^k seconds and the next attempt when k is not
\* the final attempt, and by ApiError without a sleep when it is; both kinds
\* of failure use the one attempt counter.
C7_BackoffSchedule ==
    [][(RequestStep /\ (lastResp'.status = 0 \/ lastResp'.status = 500)) =>
          IF attempt # retry_count - 1
          THEN /\ sleeps' = Append(sleeps, [kind |-> "backoff", secs |-> 2 ^ attempt])
               /\ attempt' = attempt + 1
               /\ pc' = "request"
               /\ outcome' = "none"
          ELSE /\ sleeps' = sleeps
               /\ pc' = "done"
               /\ outcome' = "ApiError"]_vars

\* a call slept 1 and then 2 seconds after an HTTP error and a network failure
C7_Witness ==
    /\ op \in RequestOps
    /\ retry_count = 3
    /\ resps = <<500, 0>>
    /\ sleeps = <<[kind |-> "backoff", secs |-> 1], [kind |-> "backoff", secs |-> 2]>>
    /\ pc = "request"

\* the number of seconds a Retry-After header value asks for, 60 when the
\* header is absent or its value is not a number
RequestedWait(headers) ==
    IF "Retry-After" \in DOMAIN headers /\ PyInt(headers["Retry-After"]).ok
    THEN PyInt(headers["Retry-After"]).val
    ELSE DefaultRetryAfter

\* C8: after an HTTP 429, _request has slept the number of seconds of the
\* Retry-After value, 60 when the value is absent or not numeric, and in
\* neither fallback case has the call ended with an error of the header.
C8_RetryAfterFallback ==
    (op \in RequestOps /\ lastResp.status = 429) =>
        /\ sleeps # <<>>
        /\ sleeps[Len(sleeps)] = [kind |-> "rate_limit", secs |-> RequestedWait(lastResp.headers)]
        /\ outcome # "ValueError"

\* the current _request call ended with a success after 429 responses only
SucceededAfterRateLimits ==
    /\ Len(resps) >= 2
    /\ resps[Len(resps)] = 200
    /\ \A i \in 1..(Len(resps) - 1) : resps[i] = 429

\* C9: a call that receives 429 twice and then a success returns the body
\* after exactly two sleeps; after two 429s that were waited out a call with
\* the default retry_count is still running; and every call that succeeds
\* after 429 responses only has slept once per 429, never for backoff.
C9_SleepsEqualRateLimits ==
    op \in RequestOps =>
        /\ (resps = <<429, 429>> /\ Len(sleeps) = 2 /\ retry_count = DefaultRetryCount)
               => (pc = "request" /\ outcome = "none")
        /\ (resps = <<429, 429, 200>> /\ op \in SingleOps)
               => (outcome = "returned" /\ retval = BodyValue /\ Len(sleeps) = 2)
        /\ SucceededAfterRateLimits =>
               /\ Len(sleeps) = Len(resps) - 1
               /\ \A i \in 1..Len(sleeps) : sleeps[i].kind = "rate_limit"

\* 429, 429, success: the body is returned after two rate-limit sleeps
C9_Witness ==
    /\ op \in SingleOps
    /\ resps = <<429, 429, 200>>
    /\ outcome = "returned"
    /\ Len(sleeps) = 2

(***************************************************************************)
(* Cursor handling of the cursor-link loops.                               *)
(***************************************************************************)
HasNextEntry(entries) == \E i \in 1..Len(entries) : entries[i].rel = RelNext

NextEntryUrl(entries) ==
    entries[CHOOSE i \in 1..Len(entries) : entries[i].rel = RelNext].url

\* a step in which a cursor-link loop sends a request and handles the answer
CursorStep == op \in CursorOps /\ pc = "fetch" /\ httpCount' = httpCount + 1

\* C10: every request after the first goes to the URL of the rel="next"
\* entry of the previous response's Link header, with no query parameters
\* (the first request alone carries the filter parameters), and a served
\* response without a rel="next" entry ends the loop.
C10_CursorFollowsNextLink ==
    [][CursorStep =>
          /\ httpCount = 0 =>
                 (lastReq'.url = <<BaseUrl>> /\ "limit" \in lastReq'.params)
          /\ httpCount >= 1 =>
                 /\ HasNextEntry(lastLink.entries)
                 /\ lastReq'.url = <<NextEntryUrl(lastLink.entries)>>
                 /\ lastReq'.params = {}
          /\ (lastResp'.status = 200 /\ lastResp'.json
                  /\ ~HasNextEntry(lastLink'.entries)) => pc' = "done"]_vars

\* after a second page whose header lists rel="previous" before rel="next",
\* a cursor-link loop is about to request the third page's URL
C10_Witness ==
    /\ op \in CursorOps
    /\ pc = "fetch"
    /\ httpCount = 2
    /\ url = <<UrlOfPage(3)>>
    /\ Len(lastLink.entries) = 2
    /\ lastLink.entries[1].rel = RelPrevious
    /\ lastLink.entries[2] = [url |-> UrlOfPage(3), rel |-> RelNext]

(***************************************************************************)
(* Stop rules and courtesy delays of the fetch-all loops.                  *)
(***************************************************************************)
\* a step in which an offset/page-number loop handles the page it received
PageStep == op \in OffsetOps /\ pc = "page"

\* the stop rules, read off the response the loop holds
StopRuleHolds ==
    \/ (IF op = "AmplifierClient.get_all_orders" THEN response.orders ELSE response.data) = <<>>
    \/ op \in PrintfulFetchAll /\ offset + PrintfulLimit >= response.total
    \/ op = "AmplifierClient.get_all_items" /\ page >= response.total_pages
    \/ op = "AmplifierClient.get_all_orders" /\ ~response.has_next

CeilDiv(a, b) == (a + b - 1) \div b

\* C11: an offset/page-number loop that received a page returns exactly when
\* the page is empty or its own stop rule holds (offset + limit >= total,
\* page >= total_pages, has_next false); otherwise it goes on with the
\* counter advanced by exactly one page.  Against a total of T records the
\* Printful loops ask for at most max(1, ceil(T / 100)) pages.
C11_OffsetStopRules ==
    /\ [][PageStep =>
             /\ (pc' = "done") <=> StopRuleHolds
             /\ pc' = "done" => (outcome' = "returned" /\ page' = page /\ offset' = offset)
             /\ pc' # "done" =>
                    /\ pc' = "request"
                    /\ page' = (IF op \in AmplifierFetchAll THEN page + 1 ELSE page)
                    /\ offset' = (IF op \in PrintfulFetchAll
                                  THEN offset + PrintfulLimit ELSE offset)]_vars
    /\ [](op \in PrintfulFetchAll =>
             offset \div PrintfulLimit + 1
                 <= (IF Len(remote) = 0 THEN 1 ELSE CeilDiv(Len(remote), PrintfulLimit)))

\* a Printful loop returned after two pages of a data set of exactly 200 records
C11_Witness ==
    /\ op \in PrintfulFetchAll
    /\ Returned
    /\ Len(remote) = 2 * PrintfulLimit
    /\ offset = PrintfulLimit
    /\ retval.records = remote

\* C12: a fetch-all loop makes one courtesy delay between every two
\* successive page fetches: when it is at (or has ended with) its p-th page
\* fetch it has made exactly p - 1 delays.  Stated for the offset loops and
\* for the cursor-link loops.
C12_CourtesyDelayBetweenPages ==
    /\ op \in OffsetOps => delays = PageNo - 1
    /\ (op \in CursorOps /\ httpCount >= 1) =>
           delays = (IF pc = "fetch" THEN httpCount ELSE httpCount - 1)

(***************************************************************************)
(* The classifiers.                                                        *)
(***************************************************************************)
\* the rules of CATEGORY_RULES that match the line item being classified
MatchingRules ==
    {k \in DOMAIN CATEGORY_RULES :
        Search(CATEGORY_RULES[k].pattern,
               IF CATEGORY_RULES[k].match_field = "sku" THEN upper(sku) ELSE lower(title))}

HoodieRule ==
    CHOOSE k \in DOMAIN CATEGORY_RULES :
        CATEGORY_RULES[k].category = "Apparel - Hoodies/Sweatshirts"

\* C18: categorize_product returns the category of the first rule of
\* CATEGORY_RULES, in list order, whose pattern matches its field (lower-cased
\* title, or upper-cased SKU for a 'sku' rule), and "Other" when none matches.
\* For a title containing both "hoodie" and "tote" the hoodie rule, which
\* comes first, decides between the two: the category is never "Bags & Totes",
\* and it is the hoodie category unless a rule listed before it matches.
C18_FirstMatchingRuleWins ==
    category # NoLabel =>
        /\ MatchingRules = {} => category = "Other"
        /\ MatchingRules # {} =>
               category = CATEGORY_RULES[Minimum(MatchingRules)].category
        /\ (InString("hoodie", lower(title)) /\ InString("tote", lower(title))) =>
               /\ category # "Bags & Totes"
               /\ (\A k \in MatchingRules : k >= HoodieRule) =>
                      category = "Apparel - Hoodies/Sweatshirts"

\* a title with "tote" before "hoodie" was put into the hoodie category
C18_Witness ==
    /\ title = "Tote Hoodie"
    /\ category = "Apparel - Hoodies/Sweatshirts"

\* the positions of upper(sku) where "HP" is followed by a digit
NumberedPrefixes ==
    {i \in 1..(Len(sku) - 2) :
        SubSeq(upper(sku), i, i + 1) = "HP" /\ IsDigit(CharAt(upper(sku), i + 2))}

\* the last position of the run of digits that starts at position i of s
RECURSIVE DigitRunEnd(_, _)
DigitRunEnd(s, i) ==
    IF i < Len(s) /\ IsDigit(CharAt(s, i + 1)) THEN DigitRunEnd(s, i + 1) ELSE i

\* the whole number that follows the first numbered "HP" of the SKU
WholeFilmNumber ==
    LET i == Minimum(NumberedPrefixes)
    IN int(SubSeq(upper(sku), i + 2, DigitRunEnd(upper(sku), i + 2)))

\* the SKU names one of the eight films
SkuNamesFilm == NumberedPrefixes # {} /\ WholeFilmNumber \in 1..LastFilm

DetectedHarryPotter ==
    InString("harry potter", lower(title)) \/ startswith(upper(sku), "HP")

\* C20 as stated: for a Harry Potter item the digits after "HP" are read as
\* one whole number; a number from 1 to 8 gives that film's name, and a
\* number outside that range gives the label "Harry Potter (Unspecified)",
\* in both analyzers.
C20_OutOfRangeIsUnspecified ==
    (DetectedHarryPotter /\ show_name # NoLabel /\ book_show_name # NoLabel
        /\ NumberedPrefixes # {}) =>
        IF WholeFilmNumber \in 1..LastFilm
        THEN /\ show_name = FullFilmNames[WholeFilmNumber]
             /\ book_show_name = BookFilmNames[WholeFilmNumber]
        ELSE /\ show_name = "Harry Potter (Unspecified)"
             /\ book_show_name = "Harry Potter (Unspecified)"

\* C20, amended: for a Harry Potter item the digits after "HP" are read as
\* one whole number, and a number from 1 to 8 gives that film's name in the
\* analyzer's own table.  Otherwise (no number, or one outside 1..8)
\* FullSalesAnalyzer answers "Harry Potter (General)", and
\* ProgramBookAnalyzer answers the film a "film N" / "#N" of the title names
\* if N is from 1 to 8, and "Harry Potter (Unspecified)" if not.
C20_FilmNumberReadWhole ==
    DetectedHarryPotter =>
        /\ show_name # NoLabel =>
               show_name = (IF SkuNamesFilm THEN FullFilmNames[WholeFilmNumber]
                            ELSE "Harry Potter (General)")
        /\ book_show_name # NoLabel =>
               book_show_name =
                   (IF SkuNamesFilm THEN BookFilmNames[WholeFilmNumber]
                    ELSE IF InFilmTable(TitleFilmMatch(lower(title)))
                    THEN BookFilmNames[int(TitleFilmMatch(lower(title)).group)]
                    ELSE "Harry Potter (Unspecified)")

\* SKU HP10BOOK was given the generic label by both analyzers
C20_Witness ==
    /\ sku = "HP10BOOK"
    /\ title = "Program Book"
    /\ show_name = "Harry Potter (General)"
    /\ book_show_name = "Harry Potter (Unspecified)"

(***************************************************************************)
(* The normalizers.                                                        *)
(***************************************************************************)
\* the normalizer has returned its rows
Extracted == stage \in {"sales", "summary"} /\ error = "none"

\* an order the normalizers are to drop as a whole
Dropped(order) ==
    \/ order.cancelled_at # None
    \/ order.financial_status \in {"refunded", "voided"}
    \/ order.created_at = ""

\* a line item the analyzer that ran reports on
InScope(item) == analyzer = "FullSalesAnalyzer" \/ is_program_book(item)

RECURSIVE SumOf(_, _)
SumOf(f, S) ==
    IF S = {} THEN 0
    ELSE LET x == CHOOSE y \in S : TRUE IN f[x] + SumOf(f, S \ {x})

\* the refund line items of an order, each as <<refund, position>>
RefundLines(order) ==
    UNION {{<<r, i>> : i \in DOMAIN order.refunds[r].refund_line_items} :
              r \in DOMAIN order.refunds}

\* ordered quantity less all refunded quantities that name this line item
ExpectedNet(order, item) ==
    LET line(p) == order.refunds[p[1]].refund_line_items[p[2]]
        matching == {p \in RefundLines(order) : line(p).line_item_id = item.id}
    IN item.quantity - SumOf([p \in matching |-> line(p).quantity], matching)

\* the line items of the input, each as <<order, position>>
LinePositions ==
    UNION {{<<k, j>> : j \in DOMAIN order_list[k].line_items} : k \in DOMAIN order_list}

LineItem(p) == order_list[p[1]].line_items[p[2]]

\* the line items that are to produce a row
KeptLines ==
    {p \in LinePositions :
        /\ ~Dropped(order_list[p[1]])
        /\ InScope(LineItem(p))
        /\ ExpectedNet(order_list[p[1]], LineItem(p)) > 0}

\* the row of a kept line item: rows come in input order
RowOf(p) ==
    sales[Cardinality({q \in KeptLines :
              q[1] < p[1] \/ (q[1] = p[1] /\ q[2] < p[2])}) + 1]

\* C13: the rows a normalizer returns are, in input order, those of the line
\* items of the non-excluded orders whose net quantity is positive, and each
\* row's quantity is the ordered quantity less the sum of the quantities of
\* all refund line items, over all refund records of the order, whose
\* line_item_id is the item's id; a net quantity <= 0 gives no row.
C13_NetQuantityOfRefunds ==
    Extracted =>
        /\ Len(sales) = Cardinality(KeptLines)
        /\ \A p \in KeptLines :
               /\ RowOf(p).order_number = order_list[p[1]].name
               /\ RowOf(p).product_title = LineItem(p).title
               /\ RowOf(p).quantity = ExpectedNet(order_list[p[1]], LineItem(p))

\* 5 ordered with refunds of 2 and 1 gave a row of 2; in the next order the
\* refund of the second item left the first at 3 and removed the second
C13_Witness ==
    /\ analyzer = "FullSalesAnalyzer"
    /\ stage = "sales"
    /\ Len(order_list) = 2
    /\ order_list[1].line_items[1].quantity = 5
    /\ Len(order_list[1].refunds) = 2
    /\ Len(order_list[2].line_items) = 2
    /\ order_list[2].refunds = <<Refund(<<RefundItem(12, 2)>>)>>
    /\ Len(sales) = 2
    /\ sales[1].quantity = 2
    /\ sales[2].quantity = 3

\* C14: a normalizer emits no row for an order that is cancelled, refunded,
\* voided or without creation timestamp; it drops the order silently, and the
\* other orders of the input still get their rows.
C14_DroppedOrdersAreSkipped ==
    stage \in {"sales", "summary"} =>
        /\ error = "none"
        /\ \A k \in DOMAIN order_list :
               Dropped(order_list[k]) =>
                   \A i \in DOMAIN sales : sales[i].order_number # order_list[k].name
        /\ \A p \in KeptLines :
               \E i \in DOMAIN sales : sales[i].order_number = order_list[p[1]].name

\* C15: every row has quantity >= 1 and line_total = unit_price * quantity,
\* where unit_price is the original price of the line item and quantity is
\* the net quantity.
C15_RowQuantityAndTotal ==
    Extracted =>
        /\ \A i \in DOMAIN sales :
               /\ sales[i].quantity >= 1
               /\ sales[i].line_total = sales[i].unit_price * sales[i].quantity
        /\ \A p \in KeptLines :
               RowOf(p).unit_price = ParsePrice(LineItem(p).price)

\* a partly refunded line item: 5 ordered at 10.00, 2 left, total 20.00
C15_Witness ==
    /\ analyzer = "ProgramBookAnalyzer"
    /\ stage = "sales"
    /\ Len(order_list) = 1
    /\ order_list[1].line_items[1].quantity = 5
    /\ order_list[1].line_items[1].price = "10.00"
    /\ Len(sales) = 1
    /\ sales[1].quantity = 2
    /\ sales[1].unit_price = 1000
    /\ sales[1].line_total = 2000

(***************************************************************************)
(* The aggregators.                                                        *)
(***************************************************************************)
\* generate_summary has returned a summary of at least one row
Summarised == stage = "summary" /\ "error" \notin DOMAIN summary

\* the dimensions of the summary
DimensionsOf(s) == {name \in DOMAIN s : name \notin {"totals", "unique_skus",
                                                     "has_multiple_currencies"}}

\* the value of a row in a dimension
DimensionValue(name, row) ==
    CASE name = "by_category" -> row.category
      [] name = "by_show" -> row.show_name
      [] name = "by_product" -> row.product_title
      [] name = "by_month" -> row.month
      [] name = "by_quarter" -> row.quarter
      [] name = "by_year" -> row.year
      [] name = "by_country" -> (IF row.country = "" THEN "Unknown" ELSE row.country)
      [] name = "by_channel" -> (IF row.sales_channel = "" THEN "web"
                                 ELSE row.sales_channel)

\* the rows of a bucket
RowsOf(name, value) == {i \in DOMAIN sales : DimensionValue(name, sales[i]) = value}

\* revenue is, per currency of the rows, the sum of their line totals
RevenueIsPerCurrency(revenue, rows) ==
    /\ DOMAIN revenue = {sales[i].currency : i \in rows}
    /\ \A c \in DOMAIN revenue :
           revenue[c] = SumOf([i \in rows |-> sales[i].line_total],
                              {i \in rows : sales[i].currency = c})

RevenueOf(bucket) ==
    IF "revenue" \in DOMAIN bucket THEN bucket.revenue ELSE bucket.revenue_by_currency

\* C16: generate_summary never adds amounts of different currencies: in the
\* overall totals and in every bucket of every dimension, revenue[c] is the
\* sum of line_total over exactly the rows of the bucket whose currency is c,
\* and units is the sum of their quantities.
C16_RevenuePerCurrency ==
    Summarised =>
        /\ RevenueIsPerCurrency(summary.totals.revenue_by_currency, DOMAIN sales)
        /\ summary.totals.total_units =
               SumOf([i \in DOMAIN sales |-> sales[i].quantity], DOMAIN sales)
        /\ \A name \in DimensionsOf(summary) :
               \A value \in DOMAIN summary[name] :
                   /\ RevenueIsPerCurrency(RevenueOf(summary[name][value]),
                                           RowsOf(name, value))
                   /\ summary[name][value].units =
                          SumOf([i \in RowsOf(name, value) |-> sales[i].quantity],
                                RowsOf(name, value))

\* 3 units at 10 USD and 2 units at 8 EUR: {USD: 30, EUR: 16} and 5 units
C16_Witness ==
    /\ Summarised
    /\ analyzer = "FullSalesAnalyzer"
    /\ Len(sales) = 2
    /\ DOMAIN summary.by_year["2024"].revenue = {"USD", "EUR"}
    /\ summary.by_year["2024"].revenue["USD"] = 3000
    /\ summary.by_year["2024"].revenue["EUR"] = 1600
    /\ summary.by_year["2024"].units = 5
    /\ summary.totals.total_units = 5

\* C17: for each of the eight dimensions the summary of FullSalesAnalyzer
\* holds one bucket per distinct value of the dimension among the rows, and
\* every bucket holds the unit count, the revenue by currency and the count
\* of distinct order numbers of its rows.
C17_EveryBucketHasThreeEntries ==
    (Summarised /\ analyzer = "FullSalesAnalyzer") =>
        \A name \in {"by_category", "by_show", "by_product", "by_month", "by_quarter",
                     "by_year", "by_country", "by_channel"} :
            /\ name \in DOMAIN summary
            /\ DOMAIN summary[name] = {DimensionValue(name, sales[i]) : i \in DOMAIN sales}
            /\ \A value \in DOMAIN summary[name] :
                   /\ {"units", "revenue", "orders"} \subseteq DOMAIN summary[name][value]
                   /\ summary[name][value].units =
                          SumOf([i \in RowsOf(name, value) |-> sales[i].quantity],
                                RowsOf(name, value))
                   /\ RevenueIsPerCurrency(summary[name][value].revenue,
                                           RowsOf(name, value))
                   /\ summary[name][value].orders =
                          Cardinality({sales[i].order_number : i \in RowsOf(name, value)})

C23_EmptyInputIsMarked ==
    stage = "summary" =>
        IF sales = <<>>
        THEN /\ DOMAIN summary = {"error"}
             /\ summary.error = (IF analyzer = "FullSalesAnalyzer" THEN "No sales found"
                                 ELSE "No program book sales found")
        ELSE /\ "error" \notin DOMAIN summary
             /\ "totals" \in DOMAIN summary

\* both orders of the input were dropped and the summary says so
C23_Witness ==
    /\ stage = "summary"
    /\ Len(order_list) = 2
    /\ sales = <<>>
    /\ summary = [error |-> "No sales found"]


\* C29: in a summary of one row or more, for every dimension the units of
\* its buckets add up to total_units, for every currency the revenue entries
\* of its buckets add up to revenue_by_currency of that currency, and every
\* row belongs to exactly one bucket of the dimension.
C29_RollupsConserveTotals ==
    Summarised =>
        \A name \in DimensionsOf(summary) :
            LET buckets == summary[name]
                RevenueIn(c) ==
                    [value \in DOMAIN buckets |->
                        IF c \in DOMAIN RevenueOf(buckets[value])
                        THEN RevenueOf(buckets[value])[c] ELSE 0]
            IN /\ SumOf([value \in DOMAIN buckets |-> buckets[value].units],
                        DOMAIN buckets) = summary.totals.total_units
               /\ \A value \in DOMAIN buckets :
                      DOMAIN RevenueOf(buckets[value])
                          \subseteq DOMAIN summary.totals.revenue_by_currency
               /\ \A c \in DOMAIN summary.totals.revenue_by_currency :
                      SumOf(RevenueIn(c), DOMAIN buckets)
                          = summary.totals.revenue_by_currency[c]
               /\ \A i \in DOMAIN sales :
                      Cardinality({value \in DOMAIN buckets :
                                      i \in RowsOf(name, value)}) = 1

\* rows of two orders in two currencies, two months and two categories
C29_Witness ==
    /\ Summarised
    /\ analyzer = "FullSalesAnalyzer"
    /\ Cardinality(DOMAIN summary.by_month) = 2
    /\ Cardinality(DOMAIN summary.by_category) = 2
    /\ Cardinality(DOMAIN summary.totals.revenue_by_currency) = 2
    /\ summary.totals.total_units >= 4
    /\ Len(sales) >= 3


\* C30: the summary FullSalesAnalyzer.generate_summary returns does not
\* depend on the order of the rows: exchanging two neighbouring rows, and
\* hence any rearrangement of the rows, leaves every entry as it is.
C30_SummaryIgnoresRowOrder ==
    (Summarised /\ analyzer = "FullSalesAnalyzer") =>
        \A k \in 1..(Len(sales) - 1) :
            LET exchanged == [i \in DOMAIN sales |->
                                 IF i = k THEN sales[k + 1]
                                 ELSE IF i = k + 1 THEN sales[k] ELSE sales[i]]
            IN generate_summary(exchanged) = summary


(***************************************************************************)
(* The worked example: a paid order and a refunded one.                    *)
(***************************************************************************)
\* the refunded order of the input
OrderB == CHOOSE order \in DroppedOrders : order.financial_status = "refunded"

\* the analysis is that of order A followed by order B
ExampleInput ==
    /\ analyzer = "FullSalesAnalyzer"
    /\ order_list = <<[OrderA EXCEPT !.name = "#1001"], [OrderB EXCEPT !.name = "#1002"]>>

\* C24: for order A (paid, four "Harry Potter 3 Program Book", SKU
\* HP3USABOOK, at 12.00 USD, created 2024-03-15T00:00:00Z, no refunds)
\* followed by the refunded order B, extract_all_sales returns one row, that
\* of order A, labelled "Program Books" and "Harry Potter 3 (Prisoner of
\* Azkaban)", with quantity 4, line total 48.00, month 2024-03, quarter
\* 2024-Q1, year 2024; generate_summary then gives total_units 4, 48.00 USD
\* for the show, and total_orders 1.
C24_WorkedExample ==
    ExampleInput =>
        /\ stage \in {"sales", "summary"} =>
               /\ Len(sales) = 1
               /\ sales[1].order_number = "#1001"
               /\ sales[1].category = "Program Books"
               /\ sales[1].show_name = "Harry Potter 3 (Prisoner of Azkaban)"
               /\ sales[1].quantity = 4
               /\ sales[1].line_total = 4800
               /\ sales[1].currency = "USD"
               /\ sales[1].month = "2024-03"
               /\ sales[1].quarter = "2024-Q1"
               /\ sales[1].year = "2024"
        /\ stage = "summary" =>
               /\ summary.totals.total_units = 4
               /\ DOMAIN summary.by_show = {"Harry Potter 3 (Prisoner of Azkaban)"}
               /\ summary.by_show["Harry Potter 3 (Prisoner of Azkaban)"].revenue
                      = [c \in {"USD"} |-> 4800]
               /\ summary.totals.total_orders = 1

\* the summary of the example has been computed
C24_Witness ==
    /\ ExampleInput
    /\ stage = "summary"
    /\ Len(sales) = 1
    /\ summary.totals.total_units = 4


(***************************************************************************)
(* Fetch-all operations on an empty data set.                              *)
(***************************************************************************)
\* the remote system holds no record and has served the first page
FirstPageCameEmpty ==
    /\ op \in FetchAllOps
    /\ pc = "done"
    /\ remote = <<>>
    /\ IF op \in OffsetOps THEN resps # <<>> /\ resps[Len(resps)] = 200
       ELSE LastFetchServed

\* C26: a fetch-all operation whose first page holds no record returns the
\* empty sequence, raises nothing and reports no failure (the analyzers
\* return ([], True)); it has asked for one page only, without any courtesy
\* delay, the cursor loops with a single HTTP request.
C26_EmptyFirstPageIsNoFailure ==
    FirstPageCameEmpty =>
        /\ Returned
        /\ retval.records = <<>>
        /\ op \in AnalyzerOps => retval = PairValue(<<>>, TRUE)
        /\ op \notin AnalyzerOps => retval = ListValue(<<>>)
        /\ failedPage = 0
        /\ delays = 0
        /\ IF op \in OffsetOps THEN PageNo = 1 ELSE httpCount = 1

\* an analyzer's fetch of a shop without orders has returned
C26_Witness ==
    /\ FirstPageCameEmpty
    /\ op = "FullSalesAnalyzer.fetch_all_orders"
    /\ httpCount = 1
    /\ retval = PairValue(<<>>, TRUE)


(***************************************************************************)
(* The reports.                                                            *)
(***************************************************************************)
\* the sections of the console report and of the category CSV that list the
\* values of a dimension
ReportedDimensions ==
    {[name |-> "by_category", console |-> "SALES BY CATEGORY",
      csv |-> "SALES BY CATEGORY"],
     [name |-> "by_show", console |-> "TOP 10 SHOWS/FRANCHISES",
      csv |-> "SALES BY SHOW/FRANCHISE"],
     [name |-> "by_country", console |-> "TOP 10 COUNTRIES", csv |-> "SALES BY COUNTRY"],
     [name |-> "by_channel", console |-> "SALES CHANNELS", csv |-> "SALES BY CHANNEL"]}

\* the output has a line of the section for the value, with a share of 0%
\* when the value has no revenue in the primary currency
ShownIn(output, section, name, value) ==
    \E p \in DOMAIN output :
        /\ output[p].section = section
        /\ output[p].value = value
        /\ get_primary_rev(summary[name][value].revenue,
                           summary.totals.primary_currency) = 0
               => output[p].share = "0.0%"

\* C22: every category, show, country and channel of the summary has its
\* line in the console report and its row in the category CSV, whatever its
\* rank, and a value without revenue in the primary currency is shown with a
\* share of 0%.
C22_EveryValueIsReported ==
    /\ stage \in {"printed", "exported"} =>
           \A d \in ReportedDimensions : \A value \in DOMAIN summary[d.name] :
               ShownIn(printed, d.console, d.name, value)
    /\ stage = "exported" =>
           \A d \in ReportedDimensions : \A value \in DOMAIN summary[d.name] :
               ShownIn(category_csv, d.csv, d.name, value)



\* the run printed a warning that its data is incomplete
IncompletenessWarned ==
    \E k \in DOMAIN console : console[k] \in {FetchIncompleteLine, IncompleteDataLine}

\* C25: a script run that has built its report or export files from a fetch
\* which an error cut short has printed a warning that the data is
\* incomplete.  Stated for the two sales-analysis scripts and for the other
\* cursor-paginated scripts (ShopifyOrderFetcher, shopify_monthly_volume).
C25_PartialFetchIsWarned ==
    (ended /\ built /\ failedPage # 0) => IncompletenessWarned


(***************************************************************************)
(* Properties of the refund batch.                                         *)
(***************************************************************************)
IsSleep(e) == e.kind = "time.sleep"

IsPost(e) == e.kind = "POST refunds.json"

\* the time.sleep calls among the first k - 1 events
SleepsBefore(k) == Cardinality({j \in 1..(k - 1) : IsSleep(events[j])})

\* a batch that is not a dry run has been confirmed
LiveBatch == refund_pc \in {"process", "rate limit", "done", "crashed"} /\ ~dry_run

\* C27: in a live batch every sleep lasts the configured delay and follows
\* the requests of an order, and every request for the order of position p
\* comes after exactly p - 1 sleeps, whatever process_refund returned for the
\* orders before; when the loop is over, the N orders have been processed,
\* exactly N - 1 sleeps have been made and the last event is no sleep.
C27_DelayBetweenConsecutiveOrders ==
    LiveBatch =>
        /\ \A k \in DOMAIN events :
             IF IsSleep(events[k])
             THEN /\ events[k].seconds = delay
                  /\ k > 1
                  /\ ~IsSleep(events[k - 1])
             ELSE events[k].order = SleepsBefore(k) + 1
        /\ refund_pc = "process" => SleepsBefore(Len(events) + 1) = order_index - 1
        /\ refund_pc = "done" =>
             /\ successful + failed = Len(refund_orders)
             /\ SleepsBefore(Len(events) + 1) = Len(refund_orders) - 1
             /\ ~IsSleep(events[Len(events)])

\* a live batch of three orders is over: the first order was not found, the
\* second was refunded, and two sleeps were made
C27_Witness ==
    /\ LiveBatch
    /\ refund_pc = "done"
    /\ Len(refund_orders) = MaxRefundOrders
    /\ lookups[1].order = NoneResult
    /\ \E k \in DOMAIN events : IsPost(events[k]) /\ events[k].order = 2
    /\ SleepsBefore(Len(events) + 1) = 2
    /\ failed >= 1
    /\ successful >= 1

\* C28: a refund is POSTed for an order only in a run that is no dry run,
\* after the order lookup returned an order which is not 'refunded' while no
\* amount was given, and after the transaction lookup returned a successful
\* capture or sale; a dry run sends nothing but order lookups; and no order
\* of the batch gets more than one POST.
C28_RefundPostOnlyWhenDue ==
    /\ \A k \in DOMAIN events :
         IsPost(events[k]) =>
             LET looked == lookups[events[k].order]
             IN /\ ~dry_run
                /\ looked.order.is = "order"
                /\ ~(looked.order.financial_status = "refunded" /\ args_amount = None)
                /\ looked.payment_trans.is = "transaction"
                /\ looked.payment_trans.kind \in {"capture", "sale"}
                /\ looked.payment_trans.status = "success"
    /\ dry_run => \A k \in DOMAIN events : events[k].kind = "GET orders.json"
    /\ \A p \in DOMAIN refund_orders :
         Cardinality({k \in DOMAIN events : IsPost(events[k]) /\ events[k].order = p}) <= 1

\* a live batch is over in which one order got its refund POST and another,
\* found and paid, got none because its transaction lookup found no payment
C28_Witness ==
    /\ refund_pc = "done"
    /\ ~dry_run
    /\ \E k \in DOMAIN events : IsPost(events[k])
    /\ \E p \in DOMAIN lookups :
         /\ lookups[p].order.is = "order"
         /\ lookups[p].payment_trans = NoneResult
         /\ \A k \in DOMAIN events : ~(IsPost(events[k]) /\ events[k].order = p)

====
